---- MODULE Spec2Model ----
(***************************************************************************)
(* Model of LimpiadorEcommerce (src/03_casos_practicos.py): the price      *)
(* parser normalizar_precio, its helper _parsear_numero and the batch      *)
(* application of the parser to a column in caso_ecommerce; and of         *)
(* LimpiadorTemporal.parsear_fecha_flexible, the loop over its formats;    *)
(* of DataCleaner and ValidadorCalidad (src/04_pipeline_automatizado.py),  *)
(* fit_transform one step at a time over small tables; and of the text     *)
(* cleaners of LimpiadorTexto (src/02_limpieza_texto.py).                  *)
(*                                                                         *)
(* A Python str is a sequence of one-character strings.  A float is the    *)
(* exact rational it denotes, [num, den] in lowest terms: the model does   *)
(* not round, so two results are equal here exactly when the decimal       *)
(* texts denote the same number divided by the same rate.                  *)
(***************************************************************************)
EXTENDS Integers, Sequences, FiniteSets, TLC

VARIABLES
    monedas,             \* self.monedas
    tasas_cambio,        \* self.tasas_cambio
    op,                  \* the call in progress, "libre" between calls
    entrada,             \* its argument (of the last record reached, for a column)
    numero_str,          \* the text its float() was given, <<>> when none
    resultado,           \* its outcome
    columna,             \* df['precio'] of caso_ecommerce
    procesados,          \* the records apply got through
    precio_normalizado,  \* df['precio_normalizado'], <<>> while not assigned
    op_temporal,         \* where a call of parsear_fecha_flexible stands
    fecha_str,           \* its argument, stripped once line 232 has run
    formato,             \* the place in formatos its loop is at, 0 outside the loop
    fecha_parseada,      \* what it returned
    config,              \* DataCleaner: self.config
    transformaciones,    \* self.transformaciones
    estadisticas,        \* self.estadisticas
    op_pipeline,         \* where a call on the DataCleaner stands
    paso,                \* the place in Pasos fit_transform is at
    df,                  \* the table fit_transform was given
    df_limpio,           \* its local df_limpio
    error_clave,         \* the key of the KeyError that ended it, "" when none
    reporte,             \* what generar_reporte returned
    corridas,            \* the calls of fit_transform made on the instance
    reglas,              \* ValidadorCalidad: self.reglas
    op_validador,        \* where a call of validar stands
    df_validado,         \* the table validar was given
    resultados,          \* its local resultados
    op_texto,            \* LimpiadorTexto: the call in progress, "libre" between calls
    texto,               \* its argument
    salida,              \* what it returned
    op_zona,             \* LimpiadorTemporal.normalizar_zona_horaria: the call in progress
    fecha,               \* its argument fecha
    zona_original,       \* its argument zona_original
    fecha_utc            \* what it returned

vars_ecommerce == <<monedas, tasas_cambio, op, entrada, numero_str, resultado,
                    columna, procesados, precio_normalizado>>

vars_temporal == <<op_temporal, fecha_str, formato, fecha_parseada>>

vars_pipeline == <<config, transformaciones, estadisticas, op_pipeline, paso,
                   df, df_limpio, error_clave, reporte, corridas>>

vars_validador == <<reglas, op_validador, df_validado, resultados>>

vars_texto == <<op_texto, texto, salida>>

vars_zona == <<op_zona, fecha, zona_original, fecha_utc>>

\* the state of the objects an action of one class does not touch
vars_ajenos_ecommerce == <<vars_temporal, vars_pipeline, vars_validador, vars_texto, vars_zona>>

vars_ajenos_temporal == <<vars_ecommerce, vars_pipeline, vars_validador, vars_texto, vars_zona>>

vars_ajenos_pipeline == <<vars_ecommerce, vars_temporal, vars_validador, vars_texto, vars_zona>>

vars_ajenos_validador == <<vars_ecommerce, vars_temporal, vars_pipeline, vars_texto, vars_zona>>

vars_ajenos_texto == <<vars_ecommerce, vars_temporal, vars_pipeline, vars_validador, vars_zona>>

vars_ajenos_zona == <<vars_ecommerce, vars_temporal, vars_pipeline, vars_validador, vars_texto>>

vars == <<vars_ecommerce, vars_temporal, vars_pipeline, vars_validador, vars_texto, vars_zona>>

(***************************************************************************)
(* Bounds of the checked inputs.                                           *)
(***************************************************************************)
\* longest numeric text handed directly to _parsear_numero
MaxNumero == 5
\* longest numeric run inside a price string
MaxCifra == 3
\* most digits before the thousands group of a rendered magnitude
MaxMiles == 1
\* most records of a column
MaxFilas == 2
\* most rows of a table given to fit_transform
MaxFilasTabla == 2
\* most rules registered in a ValidadorCalidad
MaxReglas == 3
\* most calls of fit_transform on one DataCleaner
MaxCorridas == 2
\* most pieces (tags, entities, brackets) of a text given to limpiar_html
MaxPiezas == 3

(***************************************************************************)
(* Characters.                                                             *)
(***************************************************************************)
Digitos == <<"0", "1", "2", "3", "4", "5", "6", "7", "8", "9">>

Minusculas == <<"a", "b", "c", "d", "e", "f", "g", "h", "i", "j", "k", "l", "m",
                "n", "o", "p", "q", "r", "s", "t", "u", "v", "w", "x", "y", "z">>

Mayusculas == <<"A", "B", "C", "D", "E", "F", "G", "H", "I", "J", "K", "L", "M",
                "N", "O", "P", "Q", "R", "S", "T", "U", "V", "W", "X", "Y", "Z">>

Rango(seq) == {seq[i] : i \in 1..Len(seq)}

\* the element of a one-element set; Unico({e(x) : x \in {v}}) is
\* LET x == v IN e(x) with v computed once
Unico(S) == CHOOSE v \in S : TRUE

Indice(seq, c) == CHOOSE i \in 1..Len(seq) : seq[i] = c

ConjDigitos == Rango(Digitos)

ValorDigito == [c \in ConjDigitos |-> Indice(Digitos, c) - 1]

EsDigito(c) == c \in ConjDigitos

\* the class [\d,\.] of both patterns
ConjNum == ConjDigitos \cup {",", "."}

EsNum(c) == c \in ConjNum

\* the class \s, and what str.strip() removes
ConjEspacio == {" ", "\t", "\n"}

EsEspacio(c) == c \in ConjEspacio

\* str.upper() and str.lower() on one character
AMayuscula == [c \in Rango(Minusculas) |-> Mayusculas[Indice(Minusculas, c)]]

AMinuscula == [c \in Rango(Mayusculas) |-> Minusculas[Indice(Mayusculas, c)]]

UpperChar(c) == IF c \in DOMAIN AMayuscula THEN AMayuscula[c] ELSE c

LowerChar(c) == IF c \in DOMAIN AMinuscula THEN AMinuscula[c] ELSE c

upper(s) == [i \in 1..Len(s) |-> UpperChar(s[i])]

RECURSIVE lstrip(_)
lstrip(s) == IF s # <<>> /\ EsEspacio(Head(s)) THEN lstrip(Tail(s)) ELSE s

RECURSIVE rstrip(_)
rstrip(s) == IF s # <<>> /\ EsEspacio(s[Len(s)]) THEN rstrip(SubSeq(s, 1, Len(s) - 1)) ELSE s

strip(s) == rstrip(lstrip(s))

\* str.replace(a, b) for a one-character a and a text b
RECURSIVE replace(_, _, _)
replace(s, a, b) ==
    IF s = <<>> THEN <<>>
    ELSE (IF Head(s) = a THEN b ELSE <<Head(s)>>) \o replace(Tail(s), a, b)

\* c in s
Contiene(s, c) == \E i \in 1..Len(s) : s[i] = c

\* str.rfind(c): the last place of c, counted from 1 here, 0 when absent
\* (Python counts from 0 and answers -1; only the order of two results is used)
rfind(s, c) == IF Contiene(s, c)
               THEN CHOOSE i \in 1..Len(s) : s[i] = c /\ \A j \in (i + 1)..Len(s) : s[j] # c
               ELSE 0

\* str.split(c): the pieces between the occurrences of c
RECURSIVE split(_, _)
split(s, c) ==
    IF ~Contiene(s, c) THEN <<s>>
    ELSE Unico({<<SubSeq(s, 1, i - 1)>> \o split(SubSeq(s, i + 1, Len(s)), c)
                  : i \in {CHOOSE k \in 1..Len(s) : s[k] = c /\ \A j \in 1..(k - 1) : s[j] # c}})

(***************************************************************************)
(* Numbers.                                                                *)
(***************************************************************************)
RECURSIVE GCD(_, _)
GCD(a, b) == IF b = 0 THEN a ELSE GCD(b, a % b)

Rat(n, d) == Unico({[num |-> n \div g, den |-> d \div g] : g \in {GCD(n, d)}})

RatDiv(a, b) == Unico({Rat(n, d) : n \in {a.num * b.den}, d \in {a.den * b.num}})

RECURSIVE Pot10(_)
Pot10(k) == IF k = 0 THEN 1 ELSE 10 * Pot10(k - 1)

RECURSIVE Entero(_)
Entero(s) == IF s = <<>> THEN 0
             ELSE Unico({10 * Entero(SubSeq(t, 1, Len(t) - 1)) + ValorDigito[t[Len(t)]]
                           : t \in {s}})

Ninguno == [tipo |-> "None", num |-> 0, den |-> 1]

ErrorValor == [tipo |-> "ValueError", num |-> 0, den |-> 1]

Flotante(q) == [tipo |-> "float", num |-> q.num, den |-> q.den]

\* float(s) for a text of digits, commas and periods: a number when the text
\* is digits with at most one period and at least one digit, ValueError otherwise
float(s) ==
    Unico({
        IF (\A i \in 1..Len(t) : EsDigito(t[i]) \/ t[i] = ".")
           /\ Cardinality(puntos) <= 1 /\ cifras # <<>>
        THEN Unico({Flotante(Rat(n, d))
                      : n \in {Entero(cifras)},
                        d \in {Pot10(IF puntos = {} THEN 0 ELSE Len(t) - rfind(t, "."))}})
        ELSE ErrorValor
          : t \in {s}, puntos \in {{i \in 1..Len(s) : s[i] = "."}},
            cifras \in {SelectSeq(s, EsDigito)}})

(***************************************************************************)
(* LimpiadorEcommerce._parsear_numero                                      *)
(***************************************************************************)
\* numero_normalizado with the comparison of the two rfind() results turned around
numero_normalizado_rfind_invertido(numero) ==
    Unico({
        IF Contiene(s, ",") /\ Contiene(s, ".")
        THEN IF rfind(s, ",") < rfind(s, ".")
             THEN replace(replace(s, ".", <<>>), ",", <<".">>)
             ELSE replace(s, ",", <<>>)
        ELSE IF Contiene(s, ",")
             THEN Unico({IF Len(partes) = 2 /\ Len(partes[2]) <= 2
                         THEN replace(s, ",", <<".">>)
                         ELSE replace(s, ",", <<>>)
                           : partes \in {split(s, ",")}})
             ELSE s
          : s \in {strip(numero)}})

\* numero_normalizado with a lone comma read as decimal up to three digits after it
numero_normalizado_tres_decimales(numero) ==
    Unico({
        IF Contiene(s, ",") /\ Contiene(s, ".")
        THEN IF rfind(s, ",") > rfind(s, ".")
             THEN replace(replace(s, ".", <<>>), ",", <<".">>)
             ELSE replace(s, ",", <<>>)
        ELSE IF Contiene(s, ",")
             THEN Unico({IF Len(partes) = 2 /\ Len(partes[2]) <= 3
                         THEN replace(s, ",", <<".">>)
                         ELSE replace(s, ",", <<>>)
                           : partes \in {split(s, ",")}})
             ELSE s
          : s \in {strip(numero)}})

\* numero_normalizado whose European branch forgets to strip the periods
numero_normalizado_europeo_sin_quitar(numero) ==
    Unico({
        IF Contiene(s, ",") /\ Contiene(s, ".")
        THEN IF rfind(s, ",") > rfind(s, ".")
             THEN replace(s, ",", <<".">>)
             ELSE replace(s, ",", <<>>)
        ELSE IF Contiene(s, ",")
             THEN Unico({IF Len(partes) = 2 /\ Len(partes[2]) <= 2
                         THEN replace(s, ",", <<".">>)
                         ELSE replace(s, ",", <<>>)
                           : partes \in {split(s, ",")}})
             ELSE s
          : s \in {strip(numero)}})

\* numero_normalizado with a lone period before three digits read as thousands separator
numero_normalizado_punto_miles(numero) ==
    Unico({
        IF Contiene(s, ",") /\ Contiene(s, ".")
        THEN IF rfind(s, ",") > rfind(s, ".")
             THEN replace(replace(s, ".", <<>>), ",", <<".">>)
             ELSE replace(s, ",", <<>>)
        ELSE IF Contiene(s, ",")
             THEN Unico({IF Len(partes) = 2 /\ Len(partes[2]) <= 2
                         THEN replace(s, ",", <<".">>)
                         ELSE replace(s, ",", <<>>)
                           : partes \in {split(s, ",")}})
             ELSE IF Contiene(s, ".") /\ Len(s) - rfind(s, ".") = 3
                  THEN replace(s, ".", <<>>)
                  ELSE s
          : s \in {strip(numero)}})

\* numero_str as it stands when float() is called
numero_normalizado(numero) ==
    Unico({
        IF Contiene(s, ",") /\ Contiene(s, ".")
        THEN IF rfind(s, ",") > rfind(s, ".")
             THEN replace(replace(s, ".", <<>>), ",", <<".">>)
             ELSE replace(s, ",", <<>>)
        ELSE IF Contiene(s, ",")
             THEN Unico({IF Len(partes) = 2 /\ Len(partes[2]) <= 2
                         THEN replace(s, ",", <<".">>)
                         ELSE replace(s, ",", <<>>)
                           : partes \in {split(s, ",")}})
             ELSE s
          : s \in {strip(numero)}})

_parsear_numero(numero) == float(numero_normalizado(numero))

(***************************************************************************)
(* LimpiadorEcommerce.__init__                                             *)
(***************************************************************************)
MonedasIniciales ==
    (<<"€">> :> "EUR") @@ (<<"E", "U", "R">> :> "EUR") @@ (<<"e", "u", "r", "o", "s">> :> "EUR") @@
    (<<"$">> :> "USD") @@ (<<"U", "S", "D">> :> "USD")
        @@ (<<"d", "o", "l", "l", "a", "r", "s">> :> "USD") @@
    (<<"£">> :> "GBP") @@ (<<"G", "B", "P">> :> "GBP")
        @@ (<<"p", "o", "u", "n", "d", "s">> :> "GBP") @@
    (<<"¥">> :> "JPY") @@ (<<"J", "P", "Y">> :> "JPY") @@ (<<"y", "e", "n">> :> "JPY")

\* the rate table with the euro as reference currency
TasasIniciales_base_euro ==
    ("USD" :> Rat(118, 100)) @@ ("EUR" :> Rat(100, 100)) @@
    ("GBP" :> Rat(86, 100)) @@ ("JPY" :> Rat(12900, 100))

TasasIniciales ==
    ("USD" :> Rat(100, 100)) @@ ("EUR" :> Rat(85, 100)) @@
    ("GBP" :> Rat(73, 100)) @@ ("JPY" :> Rat(11000, 100))

(***************************************************************************)
(* The two regular expressions of normalizar_precio.                       *)
(***************************************************************************)
\* the alternatives of the second group of patron_precio, in the order the
\* pattern lists them; an optional final s is tried with the s first
Alternativas ==
    << <<"€">>, <<"$">>, <<"£">>, <<"¥">>,
       <<"E", "U", "R">>, <<"U", "S", "D">>, <<"G", "B", "P">>, <<"J", "P", "Y">>,
       <<"e", "u", "r", "o", "s">>, <<"e", "u", "r", "o">>,
       <<"d", "o", "l", "l", "a", "r", "s">>, <<"d", "o", "l", "l", "a", "r">>,
       <<"p", "o", "u", "n", "d", "s">>, <<"p", "o", "u", "n", "d">>,
       <<"y", "e", "n">> >>

\* re.IGNORECASE compares the two sides with their letter case folded
AlternativasPlegadas ==
    [a \in 1..Len(Alternativas) |->
        [k \in 1..Len(Alternativas[a]) |-> LowerChar(Alternativas[a][k])]]

\* alternative a matches at place p of the text (sl: the text, case folded)
CoincideAlt(sl, p, a) ==
    /\ p + Len(Alternativas[a]) - 1 <= Len(sl)
    /\ \A k \in 1..Len(Alternativas[a]) : sl[p + k - 1] = AlternativasPlegadas[a][k]

\* the first alternative that matches at place p, 0 when none does
PrimeraAlt(sl, p) ==
    LET ok == {a \in 1..Len(Alternativas) : CoincideAlt(sl, p, a)}
    IN  IF ok = {} THEN 0 ELSE CHOOSE a \in ok : \A b \in ok : a <= b

\* the end of the longest run of [\d,\.] that starts at place i
RECURSIVE FinCorrida(_, _)
FinCorrida(s, i) == IF i < Len(s) /\ EsNum(s[i + 1]) THEN FinCorrida(s, i + 1) ELSE i

\* the number of blanks that follow place j
RECURSIVE Blancos(_, _)
Blancos(s, j) == IF j < Len(s) /\ EsEspacio(s[j + 1]) THEN 1 + Blancos(s, j + 1) ELSE 0

\* the ways patron_precio matches from place i: the first group ends at j,
\* k blanks follow, and an alternative matches after them
Intentos(s, sl, i) ==
    UNION {{<<j, k>> : k \in {n \in 0..Blancos(s, j) : PrimeraAlt(sl, j + n + 1) # 0}}
             : j \in i..FinCorrida(s, i)}

SinMatch == [hay |-> FALSE, grupo1 |-> <<>>, grupo2 |-> <<>>]

\* the match that starts at place i: the longest first group and then the
\* longest run of blanks that let the rest match (both are greedy); group 2
\* is the text the first matching alternative covers
MatchEn(s, sl, i) ==
    IF ~EsNum(s[i]) THEN SinMatch
    ELSE Unico({
           IF its = {} THEN SinMatch
           ELSE Unico({[hay |-> TRUE, grupo1 |-> SubSeq(s, i, jk[1]),
                        grupo2 |-> SubSeq(s, jk[1] + jk[2] + 1,
                                          jk[1] + jk[2] + Len(Alternativas[jk[3]]))]
                   : jk \in {<<a[1], a[2], PrimeraAlt(sl, a[1] + a[2] + 1)>>
                               : a \in {c \in its : \A b \in its :
                                          c[1] > b[1] \/ (c[1] = b[1] /\ c[2] >= b[2])}}})
             : its \in {Intentos(s, sl, i)}})

RECURSIVE Buscar(_, _, _)
Buscar(s, sl, i) ==
    IF i > Len(s) THEN SinMatch
    ELSE Unico({IF m.hay THEN m ELSE Buscar(s, sl, i + 1) : m \in {MatchEn(s, sl, i)}})

\* re.search(patron_precio, s, re.IGNORECASE): the match of the leftmost
\* place that has one
re_search(s) ==
    Unico({Buscar(t, sl, 1) : t \in {s}, sl \in {[i \in 1..Len(s) |-> LowerChar(s[i])]}})

\* re.findall(r'[\d,\.]+', s): the maximal runs, left to right
RECURSIVE re_findall(_)
re_findall(s) ==
    IF s = <<>> THEN <<>>
    ELSE IF EsNum(Head(s))
         THEN Unico({<<SubSeq(s, 1, j)>> \o re_findall(SubSeq(s, j + 1, Len(s)))
                       : j \in {FinCorrida(s, 1)}})
         ELSE re_findall(Tail(s))

(***************************************************************************)
(* LimpiadorEcommerce.normalizar_precio                                    *)
(*                                                                         *)
(* An argument is [tipo, s]: tipo "str" with the text s, or a value that   *)
(* is no str ("None", "nan", "int").  The outcome is a float, None, or the *)
(* ValueError that float() raised and nothing caught.                      *)
(***************************************************************************)
\* dict.get(clave, defecto)
get(d, clave, defecto) == IF clave \in DOMAIN d THEN d[clave] ELSE defecto

\* the text handed to _parsear_numero, <<>> when the call never gets there
numero_de(precio) ==
    IF precio.tipo # "str" THEN <<>>
    ELSE Unico({
           Unico({IF match.hay THEN match.grupo1
                  ELSE IF numeros # <<>> THEN numeros[1] ELSE <<>>
                    : match \in {re_search(s)}, numeros \in {re_findall(s)}})
             : s \in {strip(precio.s)}})

\* normalizar_precio that gives up when the rate table lacks the currency
normalizar_precio_sin_tasa_falla(precio, mon, tasas) ==
    IF precio.tipo # "str" THEN Ninguno
    ELSE Unico({
           Unico({
             IF ~match.hay
             THEN Unico({
                    IF numeros # <<>>
                    THEN Unico({IF precio_num.tipo = "ValueError" THEN Ninguno ELSE precio_num
                                  : precio_num \in {_parsear_numero(numeros[1])}})
                    ELSE Ninguno
                      : numeros \in {re_findall(s)}})
             ELSE Unico({
                    IF precio_num.tipo = "ValueError" THEN ErrorValor
                    ELSE IF moneda \in DOMAIN tasas
                         THEN Flotante(RatDiv(precio_num, tasas[moneda]))
                         ELSE Ninguno
                      : precio_num \in {_parsear_numero(match.grupo1)},
                        moneda \in {get(mon, upper(match.grupo2), "USD")}})
               : match \in {re_search(s)}})
             : s \in {strip(precio.s)}})

normalizar_precio(precio, mon, tasas) ==
    IF precio.tipo # "str" THEN Ninguno
    ELSE Unico({
           Unico({
             IF ~match.hay
             THEN Unico({
                    IF numeros # <<>>
                    THEN Unico({IF precio_num.tipo = "ValueError" THEN Ninguno ELSE precio_num
                                  : precio_num \in {_parsear_numero(numeros[1])}})
                    ELSE Ninguno
                      : numeros \in {re_findall(s)}})
             ELSE Unico({
                    IF precio_num.tipo = "ValueError" THEN ErrorValor
                    ELSE IF moneda \in DOMAIN tasas
                         THEN Flotante(RatDiv(precio_num, tasas[moneda]))
                         ELSE precio_num
                      : precio_num \in {_parsear_numero(match.grupo1)},
                        moneda \in {get(mon, upper(match.grupo2), "USD")}})
               : match \in {re_search(s)}})
             : s \in {strip(precio.s)}})

(***************************************************************************)
(* Series.apply(limpiador.normalizar_precio), as caso_ecommerce runs it on *)
(* the price column: the records in order, the first exception ends it.    *)
(***************************************************************************)
\* apply where the rows after the first are parsed with another rate table
RECURSIVE apply_tasas_tras_primera(_, _, _)
apply_tasas_tras_primera(col, mon, tasas) ==
    IF col = <<>> THEN <<>>
    ELSE Unico({IF r.tipo = "ValueError" THEN <<>>
                ELSE <<r>> \o apply_tasas_tras_primera(Tail(col), mon, TasasIniciales_base_euro)
                  : r \in {normalizar_precio(Head(col), mon, tasas)}})

\* the results of the records before the first one that raises (all of them
\* when none raises)
RECURSIVE apply(_, _, _)
apply(col, mon, tasas) ==
    IF col = <<>> THEN <<>>
    ELSE Unico({IF r.tipo = "ValueError" THEN <<>>
                ELSE <<r>> \o apply(Tail(col), mon, tasas)
                  : r \in {normalizar_precio(Head(col), mon, tasas)}})

(***************************************************************************)
(* Inputs.                                                                 *)
(***************************************************************************)
Textos(chars, n) == UNION {[1..k -> chars] : k \in 1..n}

Str(s) == [tipo |-> "str", s |-> s]

NoStr == {[tipo |-> t, s |-> <<>>] : t \in {"None", "nan", "int"}}

CifrasEntrada == {"1", "9"}

CharsNumero == CifrasEntrada \cup {",", "."}

\* a magnitude with a thousands group and a two-digit fraction
Magnitudes ==
    [miles : Textos(CifrasEntrada, MaxMiles), grupo : [1..3 -> CifrasEntrada],
     cent : [1..2 -> CifrasEntrada]]

Europeo(m) == m.miles \o <<".">> \o m.grupo \o <<",">> \o m.cent

Americano(m) == m.miles \o <<",">> \o m.grupo \o <<".">> \o m.cent

Simbolos == {"€", "$", "£", "¥"}

Codigos == {<<"E", "U", "R">>, <<"U", "S", "D">>, <<"G", "B", "P">>, <<"J", "P", "Y">>}

Palabras == {<<"e", "u", "r", "o", "s">>, <<"d", "o", "l", "l", "a", "r", "s">>,
             <<"p", "o", "u", "n", "d", "s">>, <<"y", "e", "n">>}

lower(s) == [i \in 1..Len(s) |-> LowerChar(s[i])]

Capital(s) == [i \in 1..Len(s) |-> IF i = 1 THEN UpperChar(s[i]) ELSE LowerChar(s[i])]

\* every letter case the inputs write a word in
Grafias(w) == {lower(w), upper(w), Capital(w)}

Marcadores ==
    {<<c>> : c \in Simbolos}
    \cup UNION {Grafias(w) : w \in Codigos \cup Palabras}
    \cup {<<"e", "u", "r", "o">>, <<"p", "o", "u", "n", "d">>}

Sufijos == {<<>>, <<"x">>, <<"U", "S", "D", "€">>} \cup Marcadores

Huecos == {<<>>, <<" ">>}

\* the strings the specification and the demo data name
Ejemplos ==
    { <<"1", ".", "1", "9", "9", ",", "9", "9", "€">>,
      <<"1", ",", "1", "9", "9", ".", "9", "9", "€">>,
      <<"$", "1", ",", "2", "9", "9", ".", "9", "9">>,
      <<"2", ",", "4", "9", "9", ".", "0", "0", " ", "E", "U", "R">>,
      <<"£", "3", "4", "9", ".", "9", "9">>,
      <<"3", "4", "9", ".", "9", "9", " ", "U", "S", "D">>,
      <<"1", ".", "2", "3", "4">>,
      <<"1", "2", ",", "3", "4", "5">>,
      <<"1", ".", "2", ".", "3", "€">>,
      <<"1", "0", "0", " ", "e", "u", "r", "o", "s">>,
      <<"1", "0", "0", " ", "E", "U", "R">>,
      <<"n", "o", "-", "n", "u", "m">>,
      <<" ", "1", "0", "0", "€", " ">>,
      <<"0", ".", "0", "0", "0", "0", "1">>,
      <<"0", ".", "0", "0", "1", "¥">>,
      <<>> }

NumerosEntrada ==
    Textos(CharsNumero, MaxNumero)
    \cup {Europeo(m) : m \in Magnitudes} \cup {Americano(m) : m \in Magnitudes}
    \cup {<<"1", ".", "2", "3", "4">>, <<"1", "2", ",", "3", "4", "5">>,
          <<"1", ",", "2", "9", "9", ".", "9", "9">>, <<"1", "0", "0">>,
          <<" ", "1", ",", "5", " ">>}

PreciosEntrada ==
    {c \o h \o f : c \in Textos(CharsNumero, MaxCifra), h \in Huecos, f \in Sufijos}
    \cup {<<p>> \o c : p \in Simbolos \cup {"x"}, c \in Textos(CharsNumero, MaxCifra)}
    \cup {p \o r \o f : p \in {<<>>, <<"$">>, <<"£">>},
                        r \in {Europeo(m) : m \in Magnitudes} \cup {Americano(m) : m \in Magnitudes},
                        f \in {<<>>, <<"€">>, <<"$">>, <<" ", "U", "S", "D">>}}
    \cup {c \o <<" ">> \o d \o <<"€">> : c, d \in Textos(CharsNumero, 1)}
    \cup {<<p>> \o f : p \in {",", ".", "x", " "}, f \in Sufijos}
    \cup Ejemplos

Registros ==
    {<<"1", "€">>, <<"$", "9">>, <<"x">>, <<"1", ",", ",", "€">>, <<"1", ".", "1", ".", "1", "€">>}

Columnas == UNION {[1..k -> {Str(r) : r \in Registros} \cup {[tipo |-> "nan", s |-> <<>>]}]
                     : k \in 1..MaxFilas}

(***************************************************************************)
(* datetime.strptime, as parsear_fecha_flexible calls it: the format is    *)
(* turned into a regular expression (a directive into its alternatives, a  *)
(* blank into \s+, any other character into itself, letter case ignored),  *)
(* the expression is matched at the start of the text, the whole text must *)
(* be covered, and the fields must make a date and time that exist.        *)
(***************************************************************************)
D19 == ConjDigitos \ {"0"}

D05 == {"0", "1", "2", "3", "4", "5"}

\* the alternatives of each directive, in the order they are tried; an
\* alternative is the characters it takes, place by place
Directivas ==
    ("%Y" :> << <<ConjDigitos, ConjDigitos, ConjDigitos, ConjDigitos>> >>) @@
    ("%m" :> << <<{"1"}, {"0", "1", "2"}>>, <<{"0"}, D19>>, <<D19>> >>) @@
    ("%d" :> << <<{"3"}, {"0", "1"}>>, <<{"1", "2"}, ConjDigitos>>, <<{"0"}, D19>>,
                <<D19>>, <<{" "}, D19>> >>) @@
    ("%H" :> << <<{"2"}, {"0", "1", "2", "3"}>>, <<{"0", "1"}, ConjDigitos>>,
                <<ConjDigitos>> >>) @@
    ("%M" :> << <<D05, ConjDigitos>>, <<ConjDigitos>> >>) @@
    ("%S" :> << <<{"6"}, {"0", "1"}>>, <<D05, ConjDigitos>>, <<ConjDigitos>> >>) @@
    ("%f" :> [k \in 1..6 |-> [j \in 1..(7 - k) |-> ConjDigitos]])

CoincidePatron(s, i, pat) ==
    i + Len(pat) - 1 <= Len(s) /\ \A k \in 1..Len(pat) : s[i + k - 1] \in pat[k]

RECURSIVE BlancosDesde(_, _)
BlancosDesde(s, i) ==
    IF i <= Len(s) /\ EsEspacio(s[i]) THEN 1 + BlancosDesde(s, i + 1) ELSE 0

\* the lengths the token t of a format can take at place i of s, in the
\* order the match tries them
Opciones(t, s, i) ==
    IF t \in DOMAIN Directivas
    THEN Unico({[k \in 1..Len(alts) |-> Len(alts[k])]
                  : alts \in {SelectSeq(Directivas[t], LAMBDA pat : CoincidePatron(s, i, pat))}})
    ELSE IF t = " "
    THEN Unico({[k \in 1..n |-> n - k + 1] : n \in {BlancosDesde(s, i)}})
    ELSE IF i <= Len(s) /\ UpperChar(s[i]) = UpperChar(t) THEN <<1>> ELSE <<>>

NoCasa == [ok |-> FALSE, fin |-> 0, campos |-> <<>>]

\* the first way, in the order of the alternatives, to match the tokens fmt
\* from place i of s: where it ends and the text each token took
RECURSIVE Casar(_, _, _)
RECURSIVE PrimerExito(_, _, _, _)
Casar(s, i, fmt) ==
    IF fmt = <<>> THEN [ok |-> TRUE, fin |-> i, campos |-> <<>>]
    ELSE PrimerExito(s, i, fmt, Opciones(Head(fmt), s, i))

PrimerExito(s, i, fmt, ops) ==
    IF ops = <<>> THEN NoCasa
    ELSE Unico({IF r.ok
                THEN [ok |-> TRUE, fin |-> r.fin,
                      campos |-> <<SubSeq(s, i, i + Head(ops) - 1)>> \o r.campos]
                ELSE PrimerExito(s, i, fmt, Tail(ops))
                  : r \in {Casar(s, i + Head(ops), Tail(fmt))}})

\* int() of the text the directive t took, 0 when the format has no t
Campo(fmt, campos, t) ==
    IF \E k \in 1..Len(fmt) : fmt[k] = t
    THEN Entero(SelectSeq(campos[CHOOSE k \in 1..Len(fmt) : fmt[k] = t], EsDigito))
    ELSE 0

\* %f: the digits padded with zeros on the right to six places
Micro(fmt, campos) ==
    IF \E k \in 1..Len(fmt) : fmt[k] = "%f"
    THEN Unico({Entero(c) * Pot10(6 - Len(c))
                  : c \in {campos[CHOOSE k \in 1..Len(fmt) : fmt[k] = "%f"]}})
    ELSE 0

Bisiesto(y) == y % 4 = 0 /\ (y % 100 # 0 \/ y % 400 = 0)

DiasDelMes(y, m) ==
    IF m = 2 THEN (IF Bisiesto(y) THEN 29 ELSE 28)
    ELSE IF m \in {4, 6, 9, 11} THEN 30 ELSE 31

SinFecha == [tipo |-> "None"]

ErrorFecha == [tipo |-> "ValueError"]

\* datetime(year, month, day, hour, minute, second, microsecond)
datetime(y, m, d, H, M, S, f) ==
    IF y >= 1 /\ m \in 1..12 /\ d >= 1 /\ d <= DiasDelMes(y, m)
       /\ H \in 0..23 /\ M \in 0..59 /\ S \in 0..59
    THEN [tipo |-> "datetime", year |-> y, month |-> m, day |-> d,
          hour |-> H, minute |-> M, second |-> S, microsecond |-> f]
    ELSE ErrorFecha

strptime(s, fmt) ==
    Unico({IF ~r.ok \/ r.fin # Len(s) + 1 THEN ErrorFecha
           ELSE datetime(Campo(fmt, r.campos, "%Y"), Campo(fmt, r.campos, "%m"),
                         Campo(fmt, r.campos, "%d"), Campo(fmt, r.campos, "%H"),
                         Campo(fmt, r.campos, "%M"), Campo(fmt, r.campos, "%S"),
                         Micro(fmt, r.campos))
             : r \in {Casar(s, 1, fmt)}})

(***************************************************************************)
(* LimpiadorTemporal.parsear_fecha_flexible                                *)
(***************************************************************************)
HMS == <<"%H", ":", "%M", ":", "%S">>

\* the list with the month-first slash formats ahead of the day-first ones
formatos_mes_primero ==
    << <<"%Y", "-", "%m", "-", "%d", " ">> \o HMS,
       <<"%Y", "-", "%m", "-", "%d">>,
       <<"%m", "/", "%d", "/", "%Y", " ">> \o HMS,
       <<"%m", "/", "%d", "/", "%Y">>,
       <<"%d", "-", "%m", "-", "%Y", " ">> \o HMS,
       <<"%d", "-", "%m", "-", "%Y">>,
       <<"%d", "/", "%m", "/", "%Y", " ">> \o HMS,
       <<"%d", "/", "%m", "/", "%Y">>,
       <<"%Y", "-", "%m", "-", "%d", "T">> \o HMS,
       <<"%Y", "-", "%m", "-", "%d", "T">> \o HMS \o <<"Z">>,
       <<"%Y", "-", "%m", "-", "%d", "T">> \o HMS \o <<".", "%f", "Z">> >>

\* the list without its two month-first slash formats
formatos_sin_mes_primero ==
    << <<"%Y", "-", "%m", "-", "%d", " ">> \o HMS,
       <<"%Y", "-", "%m", "-", "%d">>,
       <<"%d", "/", "%m", "/", "%Y", " ">> \o HMS,
       <<"%d", "/", "%m", "/", "%Y">>,
       <<"%d", "-", "%m", "-", "%Y", " ">> \o HMS,
       <<"%d", "-", "%m", "-", "%Y">>,
       <<"%Y", "-", "%m", "-", "%d", "T">> \o HMS,
       <<"%Y", "-", "%m", "-", "%d", "T">> \o HMS \o <<"Z">>,
       <<"%Y", "-", "%m", "-", "%d", "T">> \o HMS \o <<".", "%f", "Z">> >>

\* the list without its two dash-separated day-first formats
formatos_sin_guiones ==
    << <<"%Y", "-", "%m", "-", "%d", " ">> \o HMS,
       <<"%Y", "-", "%m", "-", "%d">>,
       <<"%d", "/", "%m", "/", "%Y", " ">> \o HMS,
       <<"%d", "/", "%m", "/", "%Y">>,
       <<"%m", "/", "%d", "/", "%Y", " ">> \o HMS,
       <<"%m", "/", "%d", "/", "%Y">>,
       <<"%Y", "-", "%m", "-", "%d", "T">> \o HMS,
       <<"%Y", "-", "%m", "-", "%d", "T">> \o HMS \o <<"Z">>,
       <<"%Y", "-", "%m", "-", "%d", "T">> \o HMS \o <<".", "%f", "Z">> >>

formatos ==
    << <<"%Y", "-", "%m", "-", "%d", " ">> \o HMS,
       <<"%Y", "-", "%m", "-", "%d">>,
       <<"%d", "/", "%m", "/", "%Y", " ">> \o HMS,
       <<"%d", "/", "%m", "/", "%Y">>,
       <<"%d", "-", "%m", "-", "%Y", " ">> \o HMS,
       <<"%d", "-", "%m", "-", "%Y">>,
       <<"%m", "/", "%d", "/", "%Y", " ">> \o HMS,
       <<"%m", "/", "%d", "/", "%Y">>,
       <<"%Y", "-", "%m", "-", "%d", "T">> \o HMS,
       <<"%Y", "-", "%m", "-", "%d", "T">> \o HMS \o <<"Z">>,
       <<"%Y", "-", "%m", "-", "%d", "T">> \o HMS \o <<".", "%f", "Z">> >>

(***************************************************************************)
(* The date texts of the checked calls.                                    *)
(***************************************************************************)
AniosEntrada == {<<"2", "0", "2", "3">>, <<"2", "0", "2", "4">>}

CamposMes == {<<"0", "1">>, <<"0", "2">>, <<"0", "4">>, <<"1", "2">>, <<"1", "5">>, <<"1">>}

CamposDia == {<<"0", "3">>, <<"1", "2">>, <<"1", "5">>, <<"2", "9">>, <<"3", "1">>, <<"3">>}

HorasEntrada ==
    {<<"1", "0", ":", "3", "0", ":", "0", "0">>, <<"2", "3", ":", "5", "9", ":", "5", "9">>,
     <<"1", "0", ":", "3", "0", ":", "6", "0">>}

\* what follows the seconds of an ISO-8601 text
ColasISO == {<<>>, <<"Z">>, <<".", "5">>, <<".", "5", "Z">>, <<".", "1", "2", "3", "4", "5", "6", "Z">>}

Calendario == [y : AniosEntrada, m : CamposMes, d : CamposDia]

ISOFecha(c) == c.y \o <<"-">> \o c.m \o <<"-">> \o c.d

Barras(c) == c.d \o <<"/">> \o c.m \o <<"/">> \o c.y

Guiones(c) == c.d \o <<"-">> \o c.m \o <<"-">> \o c.y

SoloFechas == UNION {{ISOFecha(c), Barras(c), Guiones(c)} : c \in Calendario}

OtrasFechas ==
    { <<"n", "o", "t", "-", "a", "-", "d", "a", "t", "e">>,
      <<>>,
      <<" ", "2", "0", "2", "3", "-", "0", "1", "-", "1", "5", " ">>,
      <<"2", "0", "2", "3", "-", "0", "1", "-", "1", "5", " ", " ", "1", "0", ":", "3", "0", ":", "0", "0">>,
      <<"2", "0", "2", "3", "-", "0", "1", "-", "1", "5", "t", "1", "0", ":", "3", "0", ":", "0", "0", "z">>,
      <<"2", "0", "2", "3", "/", "0", "1", "/", "1", "5">>,
      <<"0", "1", "/", "1", "2", "/", "2", "0", "2", "3">>,
      <<"0", "1", "/", "1", "3", "/", "2", "0", "2", "3">>,
      <<"1", "5", ".", "0", "1", ".", "2", "0", "2", "3">>,
      <<"2", "0", "2", "3", "-", "0", "1", "-", "1", "5", "5">>,
      <<"2", "0", "2", "3", "-", "0", "1", "-", " ", "5">>,
      <<"0", "0", "0", "0", "-", "0", "1", "-", "1", "5">>,
      <<"0", "1", "/", "0", "1", "/", "2", "0", "2", "3", " ", "2", "3", ":", "0", "0", ":", "0", "0">>,
      <<"2", "0", "2", "3", "-", "0", "1", "-", "1", "5", " ", "2", "4", ":", "0", "0", ":", "0", "0">> }

FechasEntrada ==
    SoloFechas
    \cup {f \o <<" ">> \o h : f \in SoloFechas, h \in HorasEntrada}
    \cup {ISOFecha(c) \o <<"T">> \o h \o z : c \in Calendario, h \in HorasEntrada, z \in ColasISO}
    \cup OtrasFechas

(***************************************************************************)
(* State machine: calls on one LimpiadorTemporal instance, one step for    *)
(* each turn of the loop over formatos.                                    *)
(***************************************************************************)
InitTemporal ==
    /\ op_temporal = "libre"
    /\ fecha_str = Str(<<>>)
    /\ formato = 0
    /\ fecha_parseada = SinFecha

\* the call limpiador.parsear_fecha_flexible(x) up to the loop
ParsearFechaFlexible(x) ==
    /\ op_temporal = "libre"
    /\ IF x.tipo # "str"
       THEN /\ op_temporal' = "retorno"
            /\ fecha_str' = x
            /\ formato' = 0
       ELSE /\ op_temporal' = "bucle"
            /\ fecha_str' = Str(strip(x.s))
            /\ formato' = 1
    /\ fecha_parseada' = SinFecha
    /\ UNCHANGED vars_ajenos_temporal

\* strptime raising where the loop has no except clause: the error leaves the call
IntentarFormato_sin_except ==
    /\ op_temporal = "bucle"
    /\ \E r \in {strptime(fecha_str.s, formatos[formato])} :
         /\ op_temporal' = "retorno"
         /\ fecha_parseada' = r
    /\ UNCHANGED <<fecha_str, formato>>
    /\ UNCHANGED vars_ajenos_temporal

\* one turn of the loop: return what strptime gives, or go on to the next
\* format when it raises ValueError; after the last format return None
IntentarFormato ==
    /\ op_temporal = "bucle"
    /\ \E r \in {strptime(fecha_str.s, formatos[formato])} :
         IF r.tipo = "datetime"
         THEN /\ op_temporal' = "retorno"
              /\ fecha_parseada' = r
              /\ UNCHANGED formato
         ELSE IF formato < Len(formatos)
         THEN /\ formato' = formato + 1
              /\ UNCHANGED <<op_temporal, fecha_parseada>>
         ELSE /\ op_temporal' = "retorno"
              /\ fecha_parseada' = SinFecha
              /\ UNCHANGED formato
    /\ UNCHANGED fecha_str
    /\ UNCHANGED vars_ajenos_temporal

\* the caller has the value: the locals of the call are gone
RetornoFecha ==
    /\ op_temporal = "retorno"
    /\ op_temporal' = "libre"
    /\ fecha_str' = Str(<<>>)
    /\ formato' = 0
    /\ fecha_parseada' = SinFecha
    /\ UNCHANGED vars_ajenos_temporal

NextFechas ==
    \/ op_temporal = "libre"
         /\ \E x \in {Str(s) : s \in FechasEntrada} \cup NoStr : ParsearFechaFlexible(x)
    \/ IntentarFormato
    \/ RetornoFecha

(***************************************************************************)
(* Tables (pandas.DataFrame) of src/04_pipeline_automatizado.py: the names *)
(* of the columns in order, the dtype of each, and the rows, each a        *)
(* function from column name to cell.  A cell is null (None, NaN), a       *)
(* number (an exact rational), a text or a bool.                           *)
(***************************************************************************)
CeldaNula == [clase |-> "nulo", num |-> 0, den |-> 1, txt |-> <<>>]

CeldaNum(q) == [clase |-> "num", num |-> q.num, den |-> q.den, txt |-> <<>>]

CeldaTxt(s) == [clase |-> "txt", num |-> 0, den |-> 1, txt |-> s]

CeldaBool(b) == [clase |-> "bool", num |-> IF b THEN 1 ELSE 0, den |-> 1, txt |-> <<>>]

Valor(c) == [num |-> c.num, den |-> c.den]

RSuma(a, b) == Rat(a.num * b.den + b.num * a.den, a.den * b.den)

RResta(a, b) == Rat(a.num * b.den - b.num * a.den, a.den * b.den)

RMul(a, b) == Rat(a.num * b.num, a.den * b.den)

RMenor(a, b) == a.num * b.den < b.num * a.den

RECURSIVE RTotal(_)
RTotal(vals) == IF vals = <<>> THEN Rat(0, 1) ELSE RSuma(Head(vals), RTotal(Tail(vals)))

\* len(df)
NumFilas(t) == Len(t.filas)

\* the rows of t that equal a row before them (DataFrame.duplicated(); two
\* null cells count as equal)
Duplicadas(t) == {i \in 1..NumFilas(t) : \E j \in 1..(i - 1) : t.filas[j] = t.filas[i]}

\* df.isnull().sum(), column by column
NulosPorColumna(t) ==
    [c \in Rango(t.columnas) |-> Cardinality({i \in 1..NumFilas(t) : t.filas[i][c].clase = "nulo"})]

\* df.isnull().sum().sum()
NulosTotales(t) ==
    Cardinality({<<i, c>> \in (1..NumFilas(t)) \X Rango(t.columnas) : t.filas[i][c].clase = "nulo"})

\* df.drop_duplicates(): the first of each group of equal rows, in order
RECURSIVE Primeras(_)
Primeras(filas) ==
    IF filas = <<>> THEN <<>>
    ELSE IF \E j \in 1..(Len(filas) - 1) : filas[j] = filas[Len(filas)]
    THEN Primeras(SubSeq(filas, 1, Len(filas) - 1))
    ELSE Append(Primeras(SubSeq(filas, 1, Len(filas) - 1)), filas[Len(filas)])

drop_duplicates(t) == [t EXCEPT !.filas = Primeras(t.filas)]

\* a table with column c replaced (or added, with dtype d) by the cells col
ConColumna(t, c, d, col) ==
    [columnas |-> IF c \in Rango(t.columnas) THEN t.columnas ELSE Append(t.columnas, c),
     dtypes |-> [k \in Rango(t.columnas) \cup {c} |-> IF k = c THEN d ELSE t.dtypes[k]],
     filas |-> [i \in 1..NumFilas(t) |->
                   [k \in Rango(t.columnas) \cup {c} |-> IF k = c THEN col[i] ELSE t.filas[i][k]]]]

\* df[c]
Columna(t, c) == [i \in 1..NumFilas(t) |-> t.filas[i][c]]

\* the values of the cells of col that are not null
NoNulos(col) == [i \in 1..Len(SelectSeq(col, LAMBDA x : x.clase # "nulo"))
                    |-> Valor(SelectSeq(col, LAMBDA x : x.clase # "nulo")[i])]

\* Series.mean() and Series.median(): over the cells that are not null,
\* NaN (the null cell) when there is none
mean(col) ==
    Unico({IF vals = <<>> THEN CeldaNula
           ELSE CeldaNum(RMul(RTotal(vals), Rat(1, Len(vals)))) : vals \in {NoNulos(col)}})

median(col) ==
    Unico({IF vals = <<>> THEN CeldaNula
           ELSE IF Len(vals) % 2 = 1 THEN CeldaNum(vals[(Len(vals) + 1) \div 2])
           ELSE CeldaNum(RMul(RSuma(vals[Len(vals) \div 2], vals[(Len(vals) \div 2) + 1]),
                              Rat(1, 2)))
             : vals \in {SortSeq(NoNulos(col), RMenor)}})

\* Series.fillna(v): a null v fills nothing
fillna(col, v) == [i \in 1..Len(col) |-> IF col[i].clase = "nulo" THEN v ELSE col[i]]

\* Series.fillna(method='ffill'): the last cell before that is not null
RECURSIVE ffill(_)
ffill(col) ==
    IF col = <<>> THEN <<>>
    ELSE Unico({IF col[Len(col)].clase = "nulo" /\ antes # <<>>
                THEN Append(antes, antes[Len(antes)])
                ELSE Append(antes, col[Len(col)])
                  : antes \in {ffill(SubSeq(col, 1, Len(col) - 1))}})

(***************************************************************************)
(* DataCleaner: the configuration and the five steps.  A step is a         *)
(* function of self.config and the table: the table it returns, the        *)
(* entries it appends to self.transformaciones, and the key of the         *)
(* KeyError that ends it ("" when it returns).                              *)
(***************************************************************************)
\* _configuracion_default()
ConfiguracionDefault ==
    ("eliminar_duplicados" :> TRUE) @@ ("manejar_nulos" :> TRUE) @@
    ("estandarizar_texto" :> TRUE) @@ ("detectar_outliers" :> FALSE) @@
    ("validar_formatos" :> TRUE) @@ ("logging_detallado" :> TRUE) @@
    ("umbral_outliers" :> Rat(30, 10)) @@ ("metodo_imputacion" :> "median") @@
    ("texto_minusculas" :> TRUE) @@ ("texto_espacios" :> TRUE)

\* the config of demostrar_pipeline and of the interactive presentation
ConfiguracionDemo ==
    ("eliminar_duplicados" :> TRUE) @@ ("manejar_nulos" :> TRUE) @@
    ("estandarizar_texto" :> TRUE) @@ ("detectar_outliers" :> TRUE) @@
    ("validar_formatos" :> TRUE) @@ ("metodo_imputacion" :> "median") @@
    ("umbral_outliers" :> Rat(25, 10))

\* DataCleaner(config): config or self._configuracion_default()
ConfigDe(cfg) == IF DOMAIN cfg = {} THEN ConfiguracionDefault ELSE cfg

\* the first key of claves that cfg lacks, "" when it has them all
Falta(cfg, claves) ==
    IF \A i \in 1..Len(claves) : claves[i] \in DOMAIN cfg THEN ""
    ELSE claves[CHOOSE i \in 1..Len(claves) :
                    claves[i] \notin DOMAIN cfg /\ \A j \in 1..(i - 1) : claves[j] \in DOMAIN cfg]

Devuelve(t) == [error |-> "", df |-> t, registro |-> <<>>]

Lanza(clave, t) == [error |-> clave, df |-> t, registro |-> <<>>]

\* _registrar_transformacion on the way out of a step: the entry is appended,
\* and then self.config['logging_detallado'] is read
Registra(cfg, entra, sale, operacion, detalles) ==
    [error |-> Falta(cfg, <<"logging_detallado">>),
     df |-> IF "logging_detallado" \in DOMAIN cfg THEN sale ELSE entra,
     registro |-> <<[operacion |-> operacion, detalles |-> detalles]>>]

eliminar_duplicados(cfg, t) ==
    IF "eliminar_duplicados" \notin DOMAIN cfg THEN Lanza("eliminar_duplicados", t)
    ELSE IF ~cfg["eliminar_duplicados"] THEN Devuelve(t)
    ELSE Unico({Registra(cfg, t, limpio, "eliminar_duplicados",
                         [filas_originales |-> NumFilas(t),
                          filas_eliminadas |-> NumFilas(t) - NumFilas(limpio),
                          filas_restantes |-> NumFilas(limpio)])
                  : limpio \in {drop_duplicates(t)}})

EsNumerica(t, c) == t.dtypes[c] \in {"int64", "float64"}

\* the column c of manejar_valores_nulos's result
Imputada(cfg, t, c) ==
    IF NulosPorColumna(t)[c] = 0 THEN Columna(t, c)
    ELSE IF ~EsNumerica(t, c) THEN fillna(Columna(t, c), CeldaTxt(<<"U", "N", "K", "N", "O", "W", "N">>))
    ELSE IF cfg["metodo_imputacion"] = "mean" THEN fillna(Columna(t, c), mean(Columna(t, c)))
    ELSE IF cfg["metodo_imputacion"] = "forward_fill" THEN ffill(Columna(t, c))
    ELSE fillna(Columna(t, c), median(Columna(t, c)))

manejar_valores_nulos(cfg, t) ==
    IF "manejar_nulos" \notin DOMAIN cfg THEN Lanza("manejar_nulos", t)
    ELSE IF ~cfg["manejar_nulos"] THEN Devuelve(t)
    ELSE IF "metodo_imputacion" \notin DOMAIN cfg THEN Lanza("metodo_imputacion", t)
    ELSE Registra(cfg, t,
                  [t EXCEPT !.filas = [i \in 1..NumFilas(t) |->
                                          [c \in Rango(t.columnas) |-> Imputada(cfg, t, c)[i]]]],
                  "manejar_valores_nulos",
                  [nulos_por_columna |-> NulosPorColumna(t),
                   metodo_imputacion |-> cfg["metodo_imputacion"]])

\* str.replace(r'\s+', ' ', regex=True) on one text
RECURSIVE UnEspacio(_)
UnEspacio(s) ==
    IF s = <<>> THEN <<>>
    ELSE IF ~EsEspacio(Head(s)) THEN <<Head(s)>> \o UnEspacio(Tail(s))
    ELSE <<" ">> \o UnEspacio(lstrip(s))

\* astype(str).str.lower() on one cell: None becomes the text 'none'
Minuscula(c) ==
    IF c.clase = "nulo" THEN CeldaTxt(<<"n", "o", "n", "e">>)
    ELSE CeldaTxt([i \in 1..Len(c.txt) |-> LowerChar(c.txt[i])])

\* .str.strip() and .str.replace(r'\s+', ' ') on one cell: null stays null
Espacios(c) == IF c.clase = "nulo" THEN c ELSE CeldaTxt(UnEspacio(strip(c.txt)))

TextoEstandar(cfg, c) ==
    Unico({IF cfg["texto_espacios"] THEN Espacios(m) ELSE m
             : m \in {IF cfg["texto_minusculas"] THEN Minuscula(c) ELSE c}})

\* df.select_dtypes(include=...).columns
ColumnasDe(t, dtypes) == SelectSeq(t.columnas, LAMBDA c : t.dtypes[c] \in dtypes)

estandarizar_texto(cfg, t) ==
    IF "estandarizar_texto" \notin DOMAIN cfg THEN Lanza("estandarizar_texto", t)
    ELSE IF ~cfg["estandarizar_texto"] THEN Devuelve(t)
    ELSE IF Falta(cfg, <<"texto_minusculas", "texto_espacios">>) # ""
    THEN Lanza(Falta(cfg, <<"texto_minusculas", "texto_espacios">>), t)
    ELSE Registra(cfg, t,
                  [t EXCEPT !.filas = [i \in 1..NumFilas(t) |->
                        [c \in Rango(t.columnas) |->
                            IF t.dtypes[c] = "object" THEN TextoEstandar(cfg, t.filas[i][c])
                            ELSE t.filas[i][c]]]],
                  "estandarizar_texto",
                  [columnas_procesadas |-> ColumnasDe(t, {"object"}),
                   minusculas |-> cfg["texto_minusculas"],
                   espacios |-> cfg["texto_espacios"]])

\* f'{columna}_outlier' for the numeric columns of the checked tables
ColumnaOutlier == [c \in {"edad"} |-> "edad_outlier"]

RECURSIVE SumaCuadrados(_, _)
SumaCuadrados(vals, m) ==
    IF vals = <<>> THEN Rat(0, 1)
    ELSE RSuma(RMul(RResta(Head(vals), m), RResta(Head(vals), m)), SumaCuadrados(Tail(vals), m))

\* np.abs((x - mean) / std) > umbral for the cell x of col, std the sample
\* standard deviation: z > u exactly when (x - mean)^2 (n - 1) > u^2 S, S the
\* sum of the squared deviations; NaN (a null cell, fewer than two values,
\* all values equal) compares False
EsOutlier(col, x, u) ==
    IF x.clase = "nulo" \/ Len(NoNulos(col)) < 2 THEN FALSE
    ELSE Unico({Unico({IF S.num = 0 THEN FALSE
                       ELSE RMenor(RMul(RMul(u, u), S),
                                   RMul(RMul(RResta(Valor(x), m), RResta(Valor(x), m)),
                                        Rat(Len(NoNulos(col)) - 1, 1)))
                         : S \in {SumaCuadrados(NoNulos(col), m)}})
                  : m \in {Valor(mean(col))}})

\* the table with the outlier column of each numeric column of cols added
RECURSIVE ConOutliers(_, _, _, _)
ConOutliers(t, orig, cols, u) ==
    IF cols = <<>> THEN t
    ELSE ConOutliers(ConColumna(t, ColumnaOutlier[Head(cols)], "bool",
                                [i \in 1..NumFilas(orig) |->
                                    CeldaBool(EsOutlier(Columna(orig, Head(cols)),
                                                        orig.filas[i][Head(cols)], u))]),
                     orig, Tail(cols), u)

detectar_outliers(cfg, t) ==
    IF "detectar_outliers" \notin DOMAIN cfg THEN Lanza("detectar_outliers", t)
    ELSE IF ~cfg["detectar_outliers"] THEN Devuelve(t)
    ELSE IF "umbral_outliers" \notin DOMAIN cfg THEN Lanza("umbral_outliers", t)
    ELSE Unico({Registra(cfg, t, ConOutliers(t, t, cols, cfg["umbral_outliers"]),
                         "detectar_outliers",
                         [columnas_analizadas |-> cols,
                          outliers_por_columna |->
                              [k \in 1..Len(cols) |->
                                  Cardinality({i \in 1..NumFilas(t) :
                                      EsOutlier(Columna(t, cols[k]), t.filas[i][cols[k]],
                                                cfg["umbral_outliers"])})],
                          umbral |-> cfg["umbral_outliers"]])
                  : cols \in {ColumnasDe(t, {"int64", "float64"})}})

\* the checked tables have no column whose name holds 'email', 'telefono' or
\* 'phone': both loops of validar_formatos run over no column
validar_formatos(cfg, t) ==
    IF "validar_formatos" \notin DOMAIN cfg THEN Lanza("validar_formatos", t)
    ELSE IF ~cfg["validar_formatos"] THEN Devuelve(t)
    ELSE Registra(cfg, t, t, "validar_formatos", [validaciones |-> <<>>])

\* the steps in another order, the text before the duplicates
Pasos_texto_primero == <<"estandarizar_texto", "eliminar_duplicados", "manejar_valores_nulos",
                         "detectar_outliers", "validar_formatos">>

\* the steps in the order fit_transform calls them
Pasos == <<"eliminar_duplicados", "manejar_valores_nulos", "estandarizar_texto",
           "detectar_outliers", "validar_formatos">>

\* the config flag of each step
Bandera ==
    ("eliminar_duplicados" :> "eliminar_duplicados") @@
    ("manejar_valores_nulos" :> "manejar_nulos") @@
    ("estandarizar_texto" :> "estandarizar_texto") @@
    ("detectar_outliers" :> "detectar_outliers") @@
    ("validar_formatos" :> "validar_formatos")

\* cfg with the key k set to v
ConClave(cfg, k, v) == [cfg EXCEPT ![k] = v]

\* the steps run whatever their flag says
Paso_sin_bandera(nombre, cfg, t) ==
    CASE nombre = "eliminar_duplicados" ->
             eliminar_duplicados(ConClave(cfg, "eliminar_duplicados", TRUE), t)
      [] nombre = "manejar_valores_nulos" ->
             manejar_valores_nulos(ConClave(cfg, "manejar_nulos", TRUE), t)
      [] nombre = "estandarizar_texto" ->
             estandarizar_texto(ConClave(cfg, "estandarizar_texto", TRUE), t)
      [] nombre = "detectar_outliers" ->
             detectar_outliers(ConClave(cfg, "detectar_outliers", TRUE), t)
      [] nombre = "validar_formatos" ->
             validar_formatos(ConClave(cfg, "validar_formatos", TRUE), t)

\* the call of line 253, 254, 255, 256 or 257
Paso(nombre, cfg, t) ==
    CASE nombre = "eliminar_duplicados" -> eliminar_duplicados(cfg, t)
      [] nombre = "manejar_valores_nulos" -> manejar_valores_nulos(cfg, t)
      [] nombre = "estandarizar_texto" -> estandarizar_texto(cfg, t)
      [] nombre = "detectar_outliers" -> detectar_outliers(cfg, t)
      [] nombre = "validar_formatos" -> validar_formatos(cfg, t)

\* self.estadisticas['inicial'] and ['final']
Estadisticas(t) ==
    [filas |-> NumFilas(t), columnas |-> Len(t.columnas),
     nulos_totales |-> NulosTotales(t), duplicados |-> Cardinality(Duplicadas(t))]

(***************************************************************************)
(* The tables and the configs of the checked runs.                         *)
(***************************************************************************)
ColumnasEntrada == <<"nombre", "edad">>

DtypesEntrada == ("nombre" :> "object") @@ ("edad" :> "float64")

NombresEntrada == {CeldaTxt(<<"a">>), CeldaTxt(<<" ", "A">>), CeldaNula}

EdadesEntrada == {CeldaNum(Rat(1, 1)), CeldaNum(Rat(3, 1)), CeldaNula}

FilasEntrada == {("nombre" :> n) @@ ("edad" :> e) : n \in NombresEntrada, e \in EdadesEntrada}

TablasEntrada ==
    {[columnas |-> ColumnasEntrada, dtypes |-> DtypesEntrada, filas |-> f]
        : f \in UNION {[1..k -> FilasEntrada] : k \in 1..MaxFilasTabla}}

BanderasPasos == {Bandera[p] : p \in Rango(Pasos)}

\* a config with the flags of the steps set to b
ConBanderas(cfg, b) == [k \in DOMAIN cfg |-> IF k \in BanderasPasos THEN b[k] ELSE cfg[k]]

\* what DataCleaner is built with: nothing, every choice of steps with the
\* default keys, other imputation methods and text options, and configs that
\* set only some keys, the one of the demos among them
ConfigsEntrada ==
    {<<>>}
    \cup {ConBanderas(ConfiguracionDefault, b) : b \in [BanderasPasos -> BOOLEAN]}
    \cup {ConClave(ConfiguracionDefault, "metodo_imputacion", m)
            : m \in {"mean", "mode", "forward_fill"}}
    \cup {ConClave(ConfiguracionDefault, k, FALSE)
            : k \in {"logging_detallado", "texto_minusculas", "texto_espacios"}}
    \cup {ConfiguracionDemo, ConBanderas(ConfiguracionDemo, [k \in BanderasPasos |-> FALSE])}
    \cup {ConClave(ConfiguracionDemo, k, FALSE) : k \in BanderasPasos}
    \cup {"eliminar_duplicados" :> TRUE}

(***************************************************************************)
(* State machine: one DataCleaner instance, fit_transform one step of the  *)
(* pipeline at a time, generar_reporte.                                    *)
(***************************************************************************)
SinReporte == [estado |-> "ninguno"]

\* DataCleaner.__init__ (the instance) and no call under way
Construido(cfg) ==
    /\ config = ConfigDe(cfg)
    /\ transformaciones = <<>>
    /\ estadisticas = <<>>
    /\ op_pipeline = "libre"
    /\ paso = 0
    /\ df = [columnas |-> <<>>, dtypes |-> <<>>, filas |-> <<>>]
    /\ df_limpio = [columnas |-> <<>>, dtypes |-> <<>>, filas |-> <<>>]
    /\ error_clave = ""
    /\ reporte = SinReporte
    /\ corridas = 0

\* a fit_transform that empties self.transformaciones at its start
FitTransform_reinicia(t) ==
    /\ op_pipeline = "libre"
    /\ op_pipeline' = "fit_transform"
    /\ estadisticas' = [k \in DOMAIN estadisticas \cup {"inicial"} |->
                           IF k = "inicial" THEN Estadisticas(t) ELSE estadisticas[k]]
    /\ df' = t
    /\ df_limpio' = t
    /\ paso' = 1
    /\ corridas' = corridas + 1
    /\ transformaciones' = <<>>
    /\ UNCHANGED <<config, error_clave, reporte>>
    /\ UNCHANGED vars_ajenos_pipeline

\* fit_transform up to its first step: the statistics of the input and the copy
FitTransform(t) ==
    /\ op_pipeline = "libre"
    /\ op_pipeline' = "fit_transform"
    /\ estadisticas' = [k \in DOMAIN estadisticas \cup {"inicial"} |->
                           IF k = "inicial" THEN Estadisticas(t) ELSE estadisticas[k]]
    /\ df' = t
    /\ df_limpio' = t
    /\ paso' = 1
    /\ corridas' = corridas + 1
    /\ UNCHANGED <<config, transformaciones, error_clave, reporte>>
    /\ UNCHANGED vars_ajenos_pipeline

\* the next of the five calls of lines 253-257: the step's entry joins
\* self.transformaciones, its table becomes df_limpio; a KeyError leaves
\* fit_transform with what was appended before it
EjecutarPaso ==
    /\ op_pipeline = "fit_transform"
    /\ paso <= Len(Pasos)
    /\ \E r \in {Paso(Pasos[paso], config, df_limpio)} :
         /\ transformaciones' = transformaciones \o r.registro
         /\ IF r.error = ""
            THEN /\ df_limpio' = r.df
                 /\ paso' = paso + 1
                 /\ UNCHANGED <<op_pipeline, error_clave>>
            ELSE /\ op_pipeline' = "KeyError"
                 /\ error_clave' = r.error
                 /\ UNCHANGED <<df_limpio, paso>>
    /\ UNCHANGED <<config, estadisticas, df, reporte, corridas>>
    /\ UNCHANGED vars_ajenos_pipeline

\* the end of fit_transform: the statistics of the result, and the return
Finalizar ==
    /\ op_pipeline = "fit_transform"
    /\ paso = Len(Pasos) + 1
    /\ op_pipeline' = "retornado"
    /\ estadisticas' = [k \in DOMAIN estadisticas \cup {"final"} |->
                           IF k = "final" THEN Estadisticas(df_limpio) ELSE estadisticas[k]]
    /\ UNCHANGED <<config, transformaciones, paso, df, df_limpio, error_clave, reporte,
                   corridas>>
    /\ UNCHANGED vars_ajenos_pipeline

\* generar_reporte, on an instance that has run, has failed or has not run
GenerarReporte ==
    /\ op_pipeline \in {"libre", "retornado", "KeyError"}
    /\ op_pipeline' = "reporte"
    /\ reporte' =
         IF Falta(estadisticas, <<"inicial", "final">>) # ""
         THEN [estado |-> "KeyError", clave |-> Falta(estadisticas, <<"inicial", "final">>)]
         ELSE [estado |-> "ok",
               configuracion |-> config,
               estadisticas |-> estadisticas,
               transformaciones |-> transformaciones,
               resumen |->
                 [filas_eliminadas |->
                      estadisticas["inicial"].filas - estadisticas["final"].filas,
                  nulos_imputados |->
                      estadisticas["inicial"].nulos_totales - estadisticas["final"].nulos_totales,
                  transformaciones_aplicadas |-> Len(transformaciones)]]
    /\ UNCHANGED <<config, transformaciones, estadisticas, paso, df, df_limpio, error_clave,
                   corridas>>
    /\ UNCHANGED vars_ajenos_pipeline

\* the caller is done with the instance: the next run is on a new
\* DataCleaner(config), as in the demos
Descartar ==
    /\ op_pipeline \in {"retornado", "KeyError", "reporte"}
    /\ op_pipeline' = "libre"
    /\ transformaciones' = <<>>
    /\ estadisticas' = <<>>
    /\ paso' = 0
    /\ df' = [columnas |-> <<>>, dtypes |-> <<>>, filas |-> <<>>]
    /\ df_limpio' = [columnas |-> <<>>, dtypes |-> <<>>, filas |-> <<>>]
    /\ error_clave' = ""
    /\ reporte' = SinReporte
    /\ corridas' = 0
    /\ UNCHANGED config
    /\ UNCHANGED vars_ajenos_pipeline

\* the caller has the table or the report and keeps the instance for
\* another call: nothing of the instance changes
Reanudar ==
    /\ op_pipeline \in {"retornado", "reporte"}
    /\ corridas < MaxCorridas
    /\ op_pipeline' = "libre"
    /\ reporte' = SinReporte
    /\ UNCHANGED <<config, transformaciones, estadisticas, paso, df, df_limpio, error_clave,
                   corridas>>
    /\ UNCHANGED vars_ajenos_pipeline

\* the tables and configs of the runs made one after the other on one instance
FilasCorridas ==
    {("nombre" :> CeldaTxt(<<"a">>)) @@ ("edad" :> e) : e \in {CeldaNum(Rat(1, 1)), CeldaNula}}

TablasCorridas ==
    {[columnas |-> ColumnasEntrada, dtypes |-> DtypesEntrada, filas |-> f]
        : f \in UNION {[1..k -> FilasCorridas] : k \in 1..MaxFilasTabla}}

ConfigsCorridas ==
    {<<>>,
     ConClave(ConfiguracionDefault, "detectar_outliers", TRUE),
     ConClave(ConfiguracionDefault, "manejar_nulos", FALSE),
     ConBanderas(ConfiguracionDefault, [k \in BanderasPasos |-> k = "eliminar_duplicados"]),
     ConBanderas(ConfiguracionDemo, [k \in BanderasPasos |-> FALSE])}

NextCorridas ==
    \/ op_pipeline = "libre" /\ \E t \in TablasCorridas : FitTransform(t)
    \/ EjecutarPaso
    \/ Finalizar
    \/ GenerarReporte
    \/ Reanudar

NextPipeline ==
    \/ op_pipeline = "libre" /\ \E t \in TablasEntrada : FitTransform(t)
    \/ EjecutarPaso
    \/ Finalizar
    \/ GenerarReporte
    \/ Descartar

(***************************************************************************)
(* ValidadorCalidad, with the rules demostrar_pipeline registers.          *)
(***************************************************************************)
\* the description each rule of the demo is registered with
ReglasDemo ==
    ("sin_duplicados" :> "No debe haber duplicados") @@
    ("sin_nulos" :> "No debe haber valores nulos") @@
    ("emails_validos" :> "Todos los emails deben ser válidos")

Regresa(b) == [lanza |-> FALSE, paso |-> b, texto |-> <<>>]

\* str(KeyError(clave))
LanzaKeyError(clave) == [lanza |-> TRUE, paso |-> FALSE, texto |-> <<"'">> \o clave \o <<"'">>]

\* regla['funcion'](df) for the three lambdas of lines 416, 422 and 428
Funcion(nombre, t) ==
    CASE nombre = "sin_duplicados" -> Regresa(Duplicadas(t) = {})
      [] nombre = "sin_nulos" -> Regresa(NulosTotales(t) = 0)
      [] nombre = "emails_validos" ->
           IF "email" \notin Rango(t.columnas)
           THEN LanzaKeyError(<<"e", "m", "a", "i", "l">>)
           ELSE Regresa(\A i \in 1..NumFilas(t) :
                            \E k \in 1..Len(t.filas[i]["email"].txt) :
                                t.filas[i]["email"].txt[k] = "@")

SinError == [tipo |-> "None", s |-> <<>>]

\* tables with an email column of texts
EmailsEntrada == {CeldaTxt(<<"a", "@", "b">>), CeldaTxt(<<"a", "b">>)}

TablasEmail ==
    {[columnas |-> <<"email">>, dtypes |-> ("email" :> "object"), filas |-> f]
        : f \in UNION {[1..k -> {("email" :> e) : e \in EmailsEntrada}] : k \in 1..MaxFilasTabla}}

TablasValidadas == TablasEntrada \cup TablasEmail

SinResultados == [reglas_ejecutadas |-> 0, resultados |-> <<>>]

\* ValidadorCalidad.__init__ and no call under way
InitValidador ==
    /\ reglas = <<>>
    /\ op_validador = "libre"
    /\ df_validado = [columnas |-> <<>>, dtypes |-> <<>>, filas |-> <<>>]
    /\ resultados = SinResultados

AgregarRegla(nombre, descripcion) ==
    /\ op_validador = "libre"
    /\ Len(reglas) < MaxReglas
    /\ reglas' = Append(reglas, [nombre |-> nombre, funcion |-> nombre,
                                 descripcion |-> descripcion])
    /\ UNCHANGED <<op_validador, df_validado, resultados>>
    /\ UNCHANGED vars_ajenos_validador

\* validar up to its loop
Validar(t) ==
    /\ op_validador = "libre"
    /\ op_validador' = "validar"
    /\ df_validado' = t
    /\ resultados' = [reglas_ejecutadas |-> Len(reglas), resultados |-> <<>>]
    /\ UNCHANGED reglas
    /\ UNCHANGED vars_ajenos_validador

\* one turn of the loop and no except clause: the exception leaves validar
EjecutarRegla_sin_except ==
    /\ op_validador = "validar"
    /\ Len(resultados.resultados) < Len(reglas)
    /\ \E regla \in {reglas[Len(resultados.resultados) + 1]} :
         \E r \in {Funcion(regla.funcion, df_validado)} :
            IF r.lanza
            THEN /\ op_validador' = "Exception"
                 /\ UNCHANGED resultados
            ELSE /\ resultados' =
                      [resultados EXCEPT !.resultados =
                          Append(@, [regla |-> regla.nombre,
                                     descripcion |-> regla.descripcion,
                                     paso |-> r.paso,
                                     error |-> SinError])]
                 /\ UNCHANGED op_validador
    /\ UNCHANGED <<reglas, df_validado>>
    /\ UNCHANGED vars_ajenos_validador

\* one turn of the loop of lines 317-332: the next rule, its result or its
\* exception appended
EjecutarRegla ==
    /\ op_validador = "validar"
    /\ Len(resultados.resultados) < Len(reglas)
    /\ \E regla \in {reglas[Len(resultados.resultados) + 1]} :
         \E r \in {Funcion(regla.funcion, df_validado)} :
            resultados' =
                [resultados EXCEPT !.resultados =
                    Append(@, [regla |-> regla.nombre,
                               descripcion |-> regla.descripcion,
                               paso |-> IF r.lanza THEN FALSE ELSE r.paso,
                               error |-> IF r.lanza THEN Str(r.texto) ELSE SinError])]
    /\ UNCHANGED <<reglas, op_validador, df_validado>>
    /\ UNCHANGED vars_ajenos_validador

\* the loop is over: return resultados
RetornoValidar ==
    /\ op_validador = "validar"
    /\ Len(resultados.resultados) = Len(reglas)
    /\ op_validador' = "retorno"
    /\ UNCHANGED <<reglas, df_validado, resultados>>
    /\ UNCHANGED vars_ajenos_validador

\* the caller has its dict; the validator waits for the next call
Recibido ==
    /\ op_validador = "retorno"
    /\ op_validador' = "libre"
    /\ df_validado' = [columnas |-> <<>>, dtypes |-> <<>>, filas |-> <<>>]
    /\ resultados' = SinResultados
    /\ UNCHANGED reglas
    /\ UNCHANGED vars_ajenos_validador

NextValidador ==
    \/ op_validador = "libre"
         /\ \E nombre \in DOMAIN ReglasDemo : AgregarRegla(nombre, ReglasDemo[nombre])
    \/ op_validador = "libre" /\ \E t \in TablasValidadas : Validar(t)
    \/ EjecutarRegla
    \/ RetornoValidar
    \/ Recibido

(***************************************************************************)
(* LimpiadorTemporal.normalizar_zona_horaria.  A datetime is the hour of   *)
(* its wall clock, counted from midnight of the 15th of January or of      *)
(* July 2023 (negative on the 14th), and its tzinfo: "" when naive, a zone *)
(* name otherwise.                                                         *)
(***************************************************************************)
\* the UTC offset, in hours, of the zones of pytz the checked calls name,
\* on the two dates
utcoffset ==
    [z \in {"UTC", "Europe/Madrid", "America/New_York", "Europe/London", "Asia/Tokyo",
            "Australia/Sydney"} |->
        [e \in {"enero", "julio"} |->
            CASE z = "UTC" -> 0
              [] z = "Europe/Madrid" -> IF e = "enero" THEN 1 ELSE 2
              [] z = "America/New_York" -> IF e = "enero" THEN -5 ELSE -4
              [] z = "Europe/London" -> IF e = "enero" THEN 0 ELSE 1
              [] z = "Asia/Tokyo" -> 9
              [] z = "Australia/Sydney" -> IF e = "enero" THEN 11 ELSE 10]]

Fecha(e, h, tz) == [tipo |-> "datetime", fecha |-> e, hora |-> h, tzinfo |-> tz]

NoFecha(t) == [tipo |-> t, fecha |-> "", hora |-> 0, tzinfo |-> ""]

\* pytz.timezone(zona) raises UnknownTimeZoneError for another name
ZonaConocida(zona) == zona \in DOMAIN utcoffset

\* fecha.astimezone(pytz.UTC) of an aware datetime
astimezone_utc(f) == Fecha(f.fecha, f.hora - utcoffset[f.tzinfo][f.fecha], "UTC")

\* lines 268-281; the except clause returns the argument as it came
normalizar_zona_horaria(f, zona) ==
    IF f.tipo # "datetime" THEN NoFecha("None")
    ELSE IF f.tzinfo # "" THEN astimezone_utc(f)
    ELSE IF ZonaConocida(zona)
    THEN astimezone_utc(Fecha(f.fecha, f.hora, zona))
    ELSE f

\* the names given as zona_original: those of pytz, and names pytz does not
\* know, the keys of self.zonas_horarias among them
ZonasEntrada == DOMAIN utcoffset \cup {"ES", "US", "Madrid", "CET+1", ""}

FechasZonaEntrada ==
    {Fecha(e, h, tz) : e \in {"enero", "julio"}, h \in 0..23, tz \in {""} \cup DOMAIN utcoffset}
    \cup {NoFecha("None"), NoFecha("NaT"), NoFecha("str")}

InitZona ==
    /\ op_zona = "libre"
    /\ fecha = NoFecha("None")
    /\ zona_original = "UTC"
    /\ fecha_utc = NoFecha("None")

NormalizarZonaHoraria(f, zona) ==
    /\ op_zona = "libre"
    /\ op_zona' = "normalizar_zona_horaria"
    /\ fecha' = f
    /\ zona_original' = zona
    /\ fecha_utc' = normalizar_zona_horaria(f, zona)
    /\ UNCHANGED vars_ajenos_zona

RetornoZona ==
    /\ op_zona = "normalizar_zona_horaria"
    /\ op_zona' = "libre"
    /\ fecha' = NoFecha("None")
    /\ zona_original' = "UTC"
    /\ fecha_utc' = NoFecha("None")
    /\ UNCHANGED vars_ajenos_zona

NextZona ==
    \/ op_zona = "libre"
         /\ \E f \in FechasZonaEntrada : \E zona \in ZonasEntrada : NormalizarZonaHoraria(f, zona)
    \/ RetornoZona

(***************************************************************************)
(* LimpiadorTexto (src/02_limpieza_texto.py): limpiar_telefono.            *)
(***************************************************************************)
SinTexto == [tipo |-> "None", s |-> <<>>]

EmpiezaCon(s, p) == Len(s) >= Len(p) /\ SubSeq(s, 1, Len(p)) = p

Desde(s, i) == SubSeq(s, i, Len(s))

\* f"+34-{numeros[:3]}-{numeros[3:6]}-{numeros[6:9]}"
FormatoTelefono(numeros) ==
    <<"+", "3", "4", "-">> \o SubSeq(numeros, 1, 3) \o <<"-">> \o SubSeq(numeros, 4, 6)
        \o <<"-">> \o SubSeq(numeros, 7, 9)

\* lines 52-71, from the digits of the argument on
TelefonoDeDigitos(numeros) ==
    IF Len(numeros) < 9 \/ Len(numeros) > 11 THEN SinTexto
    ELSE Unico({IF n = <<>> \/ n[1] \notin {"6", "7", "8", "9"} THEN SinTexto
                ELSE IF Len(n) = 9 THEN Str(FormatoTelefono(n))
                ELSE SinTexto
                  : n \in {IF EmpiezaCon(numeros, <<"3", "4">>) THEN Desde(numeros, 3)
                           ELSE IF EmpiezaCon(numeros, <<"0", "0", "3", "4">>)
                           THEN Desde(numeros, 5)
                           ELSE numeros}})

limpiar_telefono(telefono) ==
    IF telefono.tipo # "str" THEN SinTexto
    ELSE TelefonoDeDigitos(SelectSeq(telefono.s, EsDigito))

\* the prefixes a number is written with
PrefijosTelefono ==
    {<<>>, <<"+", "3", "4">>, <<"3", "4">>, <<"0", "0", "3", "4">>, <<"+">>,
     <<"3", "5">>, <<"0", "0">>}

\* seven, eight or nine digits after the first: numbers of 8, 9 and 10 digits
ColasTelefono ==
    {SubSeq(<<"6", "1", "2", "3", "4", "5", "6", "7", "8">>, 1, k) : k \in 7..9}
    \cup {SubSeq(<<"4", "6", "1", "2", "3", "4", "5", "6", "7">>, 1, k) : k \in 7..9}

NumerosTelefono == {<<c>> \o r : c \in {"3", "5", "6", "7", "8", "9"}, r \in ColasTelefono}

\* a number in groups of three with sep between the groups and after the prefix
Agrupado(p, n, sep) ==
    p \o (IF p = <<>> THEN <<>> ELSE sep) \o SubSeq(n, 1, 3) \o sep \o SubSeq(n, 4, 6)
        \o sep \o Desde(n, 7)

\* the telefono column of crear_datos_sucios
TelefonosDemo ==
    { <<"+", "3", "4", "-", "6", "6", "6", "-", "1", "2", "3", "-", "4", "5", "6">>,
      <<"6", "6", "6", " ", "1", "2", "3", " ", "4", "5", "6">>,
      <<"6", "6", "6", ".", "1", "2", "3", ".", "4", "5", "6">>,
      <<"3", "4", "6", "6", "6", "1", "2", "3", "4", "5", "6">>,
      <<"0", "0", "3", "4", "-", "6", "6", "6", "-", "1", "2", "3", "-", "4", "5", "6">>,
      <<"6", "6", "6", "1", "2", "3", "4", "5", "6">>,
      <<"6", "6", "6", "-", "1", "2", "3", "-", "4", "5", "6">>,
      <<"6", "6", "6", "1", "2", "3", "4", "5", "6", "7">>,
      <<"5", "5", "5", "-", "1", "2", "3", "-", "4", "5", "6">>,
      <<"1", "2", "3", "4", "5", "6", "7", "8", "9">>,
      <<"6", "6", "6", "-", "1", "2", "3", "-", "4", "5">>,
      <<"6", "6", "6", "-", "1", "2", "3", "-", "4", "5", "6", "7">> }

TelefonosEntrada ==
    {Agrupado(p, n, sep) : p \in PrefijosTelefono, n \in NumerosTelefono,
                           sep \in {<<>>, <<"-">>, <<" ">>, <<"x", ".">>}}
    \cup TelefonosDemo
    \cup {<<>>, <<"x">>}

(***************************************************************************)
(* LimpiadorTexto: limpiar_html.                                           *)
(***************************************************************************)
\* the place of the first '>' of s from place i on, 0 when there is none
RECURSIVE PrimerCierre(_, _)
PrimerCierre(s, i) ==
    IF i > Len(s) THEN 0 ELSE IF s[i] = ">" THEN i ELSE PrimerCierre(s, i + 1)

\* re.sub(r'<[^>]+>', '', s) from place i on: a '<' with a '>' after it and
\* at least one character between them goes, up to the first such '>'
RECURSIVE SinEtiquetasDesde(_, _)
SinEtiquetasDesde(s, i) ==
    IF i > Len(s) THEN <<>>
    ELSE IF s[i] = "<" /\ PrimerCierre(s, i + 1) > i + 1
    THEN SinEtiquetasDesde(s, PrimerCierre(s, i + 1) + 1)
    ELSE <<s[i]>> \o SinEtiquetasDesde(s, i + 1)

SinEtiquetas(s) == SinEtiquetasDesde(s, 1)

\* s.replace_texto(viejo, nuevo), viejo not empty
RECURSIVE replace_texto(_, _, _)
replace_texto(s, viejo, nuevo) ==
    IF s = <<>> THEN <<>>
    ELSE IF EmpiezaCon(s, viejo) THEN nuevo \o replace_texto(Desde(s, Len(viejo) + 1), viejo, nuevo)
    ELSE <<s[1]>> \o replace_texto(Desde(s, 2), viejo, nuevo)

\* entidades, in the order of the dict
entidades ==
    <<<<<<"&", "a", "m", "p", ";">>, <<"&">>>>,
      <<<<"&", "l", "t", ";">>, <<"<">>>>,
      <<<<"&", "g", "t", ";">>, <<">">>>>,
      <<<<"&", "q", "u", "o", "t", ";">>, <<"\"">>>>,
      <<<<"&", "#", "3", "9", ";">>, <<"'">>>>,
      <<<<"&", "n", "b", "s", "p", ";">>, <<" ">>>>>>

\* the loop of lines 237-238 from the k-th entity on
RECURSIVE Decodificar(_, _)
Decodificar(s, k) ==
    IF k > Len(entidades) THEN s
    ELSE Decodificar(replace_texto(s, entidades[k][1], entidades[k][2]), k + 1)

limpiar_html(t) ==
    IF t.tipo # "str" THEN Str(<<>>)
    ELSE Str(strip(Decodificar(SinEtiquetas(t.s), 1)))

\* what the checked texts are made of: tags, entities, loose brackets
PiezasHTML ==
    {<<"<", "b", ">">>,
     <<"<", "/", "b", ">">>,
     <<"&", "l", "t", ";">>,
     <<"&", "g", "t", ";">>,
     <<"&", "a", "m", "p", ";">>,
     <<"<">>,
     <<">">>,
     <<"a">>,
     <<" ">>,
     <<"&", "n", "b", "s", "p", ";">>,
     <<"&", "q", "u", "o", "t", ";">>,
     <<"&", "#", "3", "9", ";">>,
     <<"l", "t", ";">>,
     <<"<", ">">>}

RECURSIVE Unir(_)
Unir(ps) == IF ps = <<>> THEN <<>> ELSE ps[1] \o Unir(Tail(ps))

\* texts of the descripcion_html column of crear_datos_sucios
HTMLDemo ==
    {<<"<", "s", "p", "a", "n", ">", "T", "e", "x", "t", "o", " ", "n", "o", "r", "m", "a", "l", "<", "/", "s", "p", "a", "n", ">">>,
     <<"T", "e", "x", "t", "o", " ", "c", "o", "n", " ", "&", "a", "m", "p", ";", " ", "s", "í", "m", "b", "o", "l", "o", "s">>,
     <<"<", "a", " ", "h", "r", "e", "f", "=", "\"", "#", "\"", ">", "E", "n", "l", "a", "c", "e", "<", "/", "a", ">", " ", "t", "e", "x", "t", "o">>,
     <<"<", "p", ">", "M", "ú", "l", "t", "i", "p", "l", "e", "s", " ", "<", "b", "r", "/", ">", " ", "l", "í", "n", "e", "a", "s", "<", "/", "p", ">">>,
     <<"S", "i", "n", " ", "H", "T", "M", "L">>}

HTMLEntrada ==
    {Unir(ps) : ps \in UNION {[1..k -> PiezasHTML] : k \in 1..MaxPiezas}} \cup HTMLDemo \cup {<<>>}

(***************************************************************************)
(* LimpiadorTexto: validar_dni.                                            *)
(***************************************************************************)
Bool(b) == [tipo |-> IF b THEN "True" ELSE "False", s |-> <<>>]

letras == <<"T", "R", "W", "A", "G", "M", "Y", "F", "P", "D", "X", "B", "N", "J", "Z", "S",
            "Q", "V", "H", "L", "C", "K", "E">>

\* re.match(r'^\d{8}[TRWAGMYFPDXBNJZSQVHLCKE]$', dni), dni stripped
CoincideDNI(dni) ==
    /\ Len(dni) = 9
    /\ \A i \in 1..8 : EsDigito(dni[i])
    /\ dni[9] \in Rango(letras)

\* letras[numero % 23], with a shift of the place
letra_calculada_desplazada(dni) == letras[((Entero(SubSeq(dni, 1, 8)) + 1) % 23) + 1]

\* letras[numero % 23]: a Python index starts at 0
letra_calculada(dni) == letras[(Entero(SubSeq(dni, 1, 8)) % 23) + 1]

validar_dni(dni) ==
    IF dni.tipo # "str" THEN Bool(FALSE)
    ELSE Unico({IF ~CoincideDNI(d) THEN Bool(FALSE) ELSE Bool(d[9] = letra_calculada(d))
                  : d \in {upper(strip(dni.s))}})

\* the numbers of the dni column of crear_datos_sucios, and the first and the
\* last hundred of the eight-digit numbers
NumerosDNI ==
    {<<"1", "2", "3", "4", "5", "6", "7", "8">>, <<"8", "7", "6", "5", "4", "3", "2", "1">>,
     <<"1", "1", "2", "2", "3", "3", "4", "4">>, <<"9", "9", "8", "8", "7", "7", "6", "6">>}
    \cup {p \o <<a, b>> : p \in {<<"0", "0", "0", "0", "0", "0">>, <<"9", "9", "9", "9", "9", "9">>},
                          a \in ConjDigitos, b \in ConjDigitos}

LetrasDNI == Rango(letras) \cup {LowerChar(c) : c \in Rango(letras)} \cup {"I", "O", "U", "o", "1", "-"}

DNIEntrada ==
    {n \o <<c>> : n \in NumerosDNI, c \in LetrasDNI}
    \cup {<<" ">> \o n \o <<"z", " ">> : n \in NumerosDNI}
    \cup {Desde(n, 2) \o <<c>> : n \in NumerosDNI, c \in {"T", "Z"}}
    \cup {<<"1">> \o n \o <<c>> : n \in NumerosDNI, c \in {"T", "Z"}}
    \cup {n \o <<c, "\n">> : n \in NumerosDNI, c \in {"T", "Z"}}
    \cup {n : n \in NumerosDNI}
    \cup {<<>>, <<"Z">>}

(***************************************************************************)
(* State machine: calls on one LimpiadorTexto instance.                    *)
(***************************************************************************)
InitTexto ==
    /\ op_texto = "libre"
    /\ texto = Str(<<>>)
    /\ salida = SinTexto

LimpiarTelefono(telefono) ==
    /\ op_texto = "libre"
    /\ op_texto' = "limpiar_telefono"
    /\ texto' = telefono
    /\ salida' = limpiar_telefono(telefono)
    /\ UNCHANGED vars_ajenos_texto

LimpiarHTML(t) ==
    /\ op_texto = "libre"
    /\ op_texto' = "limpiar_html"
    /\ texto' = t
    /\ salida' = limpiar_html(t)
    /\ UNCHANGED vars_ajenos_texto

ValidarDNI(dni) ==
    /\ op_texto = "libre"
    /\ op_texto' = "validar_dni"
    /\ texto' = dni
    /\ salida' = validar_dni(dni)
    /\ UNCHANGED vars_ajenos_texto

\* the caller has the value; the instance has no state a call changes
RetornoTexto ==
    /\ op_texto # "libre"
    /\ op_texto' = "libre"
    /\ texto' = Str(<<>>)
    /\ salida' = SinTexto
    /\ UNCHANGED vars_ajenos_texto

NextTexto ==
    \/ op_texto = "libre"
         /\ \E x \in {Str(s) : s \in TelefonosEntrada} \cup NoStr : LimpiarTelefono(x)
    \/ op_texto = "libre"
         /\ \E x \in {Str(s) : s \in HTMLEntrada} \cup NoStr : LimpiarHTML(x)
    \/ op_texto = "libre"
         /\ \E x \in {Str(s) : s \in DNIEntrada} \cup NoStr : ValidarDNI(x)
    \/ RetornoTexto

(***************************************************************************)
(* State machine: calls on one LimpiadorEcommerce instance.                *)
(***************************************************************************)
Init ==
    /\ monedas = MonedasIniciales
    /\ tasas_cambio = TasasIniciales
    /\ op = "libre"
    /\ entrada = Str(<<>>)
    /\ numero_str = <<>>
    /\ resultado = Ninguno
    /\ columna = <<>>
    /\ procesados = 0
    /\ precio_normalizado = <<>>
    /\ InitTemporal
    /\ Construido(<<>>)
    /\ InitValidador
    /\ InitTexto
    /\ InitZona

\* a direct call limpiador._parsear_numero(n)
ParsearNumero(n) ==
    /\ op = "libre"
    /\ op' = "_parsear_numero"
    /\ entrada' = Str(n)
    /\ numero_str' = numero_normalizado(n)
    /\ resultado' = _parsear_numero(n)
    /\ UNCHANGED <<monedas, tasas_cambio, columna, procesados, precio_normalizado>>
    /\ UNCHANGED vars_ajenos_ecommerce

\* a direct call limpiador.normalizar_precio(x)
NormalizarPrecio(x) ==
    /\ op = "libre"
    /\ op' = "normalizar_precio"
    /\ entrada' = x
    /\ numero_str' = numero_normalizado(numero_de(x))
    /\ resultado' = normalizar_precio(x, monedas, tasas_cambio)
    /\ UNCHANGED <<monedas, tasas_cambio, columna, procesados, precio_normalizado>>
    /\ UNCHANGED vars_ajenos_ecommerce

\* caso_ecommerce: the column is assigned when apply
\* returns; an exception leaves apply and the column is never assigned
AplicarColumna(col) ==
    /\ op = "libre"
    /\ columna' = col
    /\ \E hechos \in {apply(col, monedas, tasas_cambio)} :
         \E ultimo \in {IF Len(hechos) < Len(col) THEN Len(hechos) + 1 ELSE Len(col)} :
           /\ procesados' = Len(hechos)
           /\ entrada' = col[ultimo]
           /\ numero_str' = numero_normalizado(numero_de(col[ultimo]))
           /\ resultado' = normalizar_precio(col[ultimo], monedas, tasas_cambio)
           /\ IF Len(hechos) = Len(col)
              THEN op' = "apply" /\ precio_normalizado' = hechos
              ELSE op' = "apply_raise" /\ UNCHANGED precio_normalizado
    /\ UNCHANGED <<monedas, tasas_cambio>>
    /\ UNCHANGED vars_ajenos_ecommerce

\* the call returns (or its exception reaches the caller): its locals are
\* gone, the instance and its two tables stay
Retorno ==
    /\ op # "libre"
    /\ op' = "libre"
    /\ entrada' = Str(<<>>)
    /\ numero_str' = <<>>
    /\ resultado' = Ninguno
    /\ columna' = <<>>
    /\ procesados' = 0
    /\ precio_normalizado' = <<>>
    /\ UNCHANGED <<monedas, tasas_cambio>>
    /\ UNCHANGED vars_ajenos_ecommerce

\* a call starts only between calls, so the inputs are drawn only then
Next ==
    \/ op = "libre" /\ \E n \in NumerosEntrada : ParsearNumero(n)
    \/ op = "libre" /\ \E x \in {Str(s) : s \in PreciosEntrada} \cup NoStr : NormalizarPrecio(x)
    \/ op = "libre" /\ \E col \in Columnas : AplicarColumna(col)
    \/ Retorno

Spec == Init /\ [][Next]_vars

(***************************************************************************)
(* The same instance with another rate table.  tasas_cambio is a plain     *)
(* attribute that normalizar_precio reads at every call (lines 76-77), so  *)
(* a caller may have replaced it by a table that lacks a currency.         *)
(***************************************************************************)
\* longest numeric run of the prices parsed under the other rate tables
MaxCifraTasas == 2

\* the rate table of __init__ and the tables that lack one of its currencies
TablasTasas ==
    {[c \in D |-> TasasIniciales[c]] :
        D \in {E \in SUBSET DOMAIN TasasIniciales : Cardinality(E) >= 3}}

PreciosTasas ==
    {c \o h \o f : c \in Textos(CharsNumero, MaxCifraTasas), h \in Huecos, f \in Sufijos}
    \cup {<<p>> \o c : p \in Simbolos, c \in Textos(CharsNumero, 1)}

InitTasas ==
    /\ monedas = MonedasIniciales
    /\ tasas_cambio \in TablasTasas
    /\ op = "libre"
    /\ entrada = Str(<<>>)
    /\ numero_str = <<>>
    /\ resultado = Ninguno
    /\ columna = <<>>
    /\ procesados = 0
    /\ precio_normalizado = <<>>
    /\ InitTemporal
    /\ Construido(<<>>)
    /\ InitValidador
    /\ InitTexto
    /\ InitZona

NextTasas ==
    \/ op = "libre" /\ \E x \in {Str(s) : s \in PreciosTasas} : NormalizarPrecio(x)
    \/ Retorno

SpecTasas == InitTasas /\ [][NextTasas]_vars

(***************************************************************************)
(* The calls of parsear_fecha_flexible on their own.                       *)
(***************************************************************************)
SpecFechas == Init /\ [][NextFechas]_vars

SpecZona == Init /\ [][NextZona]_vars

(***************************************************************************)
(* The DataCleaner on its own, built with each of the checked configs.     *)
(***************************************************************************)
InitPipeline ==
    /\ monedas = MonedasIniciales
    /\ tasas_cambio = TasasIniciales
    /\ op = "libre"
    /\ entrada = Str(<<>>)
    /\ numero_str = <<>>
    /\ resultado = Ninguno
    /\ columna = <<>>
    /\ procesados = 0
    /\ precio_normalizado = <<>>
    /\ InitTemporal
    /\ \E cfg \in ConfigsEntrada : Construido(cfg)
    /\ InitValidador
    /\ InitTexto
    /\ InitZona

SpecPipeline == InitPipeline /\ [][NextPipeline]_vars

(***************************************************************************)
(* One DataCleaner instance, fit_transform called on it again and again.   *)
(***************************************************************************)
InitCorridas ==
    /\ monedas = MonedasIniciales
    /\ tasas_cambio = TasasIniciales
    /\ op = "libre"
    /\ entrada = Str(<<>>)
    /\ numero_str = <<>>
    /\ resultado = Ninguno
    /\ columna = <<>>
    /\ procesados = 0
    /\ precio_normalizado = <<>>
    /\ InitTemporal
    /\ \E cfg \in ConfigsCorridas : Construido(cfg)
    /\ InitValidador
    /\ InitTexto
    /\ InitZona

SpecCorridas == InitCorridas /\ [][NextCorridas]_vars

(***************************************************************************)
(* The ValidadorCalidad on its own.                                        *)
(***************************************************************************)
SpecValidador == Init /\ [][NextValidador]_vars

(***************************************************************************)
(* The LimpiadorTexto on its own.                                          *)
(***************************************************************************)
SpecTexto == Init /\ [][NextTexto]_vars

(***************************************************************************)
(* Properties.                                                             *)
(***************************************************************************)
\* a non-empty text of digits, commas and periods
EsCorrida(m) == m # <<>> /\ \A i \in 1..Len(m) : EsNum(m[i])

Lugares(s, c) == {i \in 1..Len(s) : s[i] = c}

UltimoLugar(s, c) ==
    IF Lugares(s, c) = {} THEN 0
    ELSE CHOOSE i \in Lugares(s, c) : \A j \in Lugares(s, c) : j <= i

Quitar(s, c) == SelectSeq(s, LAMBDA x : x # c)

Cambiar(s, c, d) == [i \in 1..Len(s) |-> IF s[i] = c THEN d ELSE s[i]]

\* r is the float a / b
EsCociente(r, a, b) ==
    r.tipo = "float" /\ [num |-> r.num, den |-> r.den] = Rat(a.num * b.den, a.den * b.num)

\* the decimal value of a text of digits with one decimal separator at place p
\* (p = 0: no separator)
ValorDecimal(s, p) ==
    Flotante(Rat(Entero(SelectSeq(s, EsDigito)), Pot10(IF p = 0 THEN 0 ELSE Len(s) - p)))

LlamadaPrecio == op = "normalizar_precio" /\ entrada.tipo = "str"

LlamadaNumero == op = "_parsear_numero" /\ EsCorrida(entrada.s)

\* C1: a currency symbol directly before or directly after the numeric run is
\* the currency marker: the result is the parsed magnitude divided by that
\* currency's rate, on either side of the number.
C1_SimboloAdyacente ==
    LlamadaPrecio =>
        \A c \in Simbolos :
            LET s == entrada.s
                tasa == TasasIniciales[MonedasIniciales[<<c>>]]
                delante == Len(s) >= 2 /\ s[1] = c /\ EsCorrida(Tail(s))
                detras == Len(s) >= 2 /\ s[Len(s)] = c /\ EsCorrida(SubSeq(s, 1, Len(s) - 1))
            IN  /\ (delante /\ _parsear_numero(Tail(s)).tipo = "float")
                     => EsCociente(resultado, _parsear_numero(Tail(s)), tasa)
                /\ (detras /\ _parsear_numero(SubSeq(s, 1, Len(s) - 1)).tipo = "float")
                     => EsCociente(resultado, _parsear_numero(SubSeq(s, 1, Len(s) - 1)), tasa)

\* C2: a word-form marker (euros, dollars, pounds, yen, in any letter case)
\* after the number resolves to its currency code: the result is the
\* magnitude divided by that code's rate.
C2_PalabraResuelta ==
    (LlamadaPrecio /\ entrada.s # <<>> /\ EsNum(entrada.s[1])) =>
        LET s == entrada.s
            j == FinCorrida(s, 1)
            m == SubSeq(s, 1, j)
            w == lstrip(SubSeq(s, j + 1, Len(s)))
        IN  (lower(w) \in Palabras /\ _parsear_numero(m).tipo = "float")
              => EsCociente(resultado, _parsear_numero(m),
                            TasasIniciales[MonedasIniciales[lower(w)]])

\* C3: normalizar_precio never raises (its outcome is a number or None), so a
\* column it is applied to is processed to its last record.
C3_NuncaLanza ==
    /\ op = "normalizar_precio" => resultado.tipo \in {"float", "None"}
    /\ op \in {"apply", "apply_raise"} =>
          /\ procesados = Len(columna)
          /\ Len(precio_normalizado) = Len(columna)

\* C4: a string without any digit gives None (no numeric token), never a
\* number and never another outcome.
C4_SinDigitos ==
    (LlamadaPrecio /\ \A i \in 1..Len(entrada.s) : ~EsDigito(entrada.s[i]))
        => resultado = Ninguno

\* C5: with both ',' and '.' in the numeric text, the separator whose last
\* occurrence is rightmost is the decimal separator and every occurrence of
\* the other one is stripped; '1.199,99' gives 1199.99.
C5_UltimoSeparadorDecimal ==
    (LlamadaNumero /\ Contiene(entrada.s, ",") /\ Contiene(entrada.s, ".")) =>
        LET s == entrada.s
            dec == IF UltimoLugar(s, ",") > UltimoLugar(s, ".") THEN "," ELSE "."
            otro == IF dec = "," THEN "." ELSE ","
        IN  /\ numero_str = Cambiar(Quitar(s, otro), dec, ".")
            /\ (Cardinality(Lugares(s, dec)) = 1 /\ \E i \in 1..Len(s) : EsDigito(s[i]))
                  => resultado = ValorDecimal(s, UltimoLugar(s, dec))
            /\ s = <<"1", ".", "1", "9", "9", ",", "9", "9">>
                  => resultado = Flotante(Rat(119999, 100))

C5_Testigo ==
    /\ op = "_parsear_numero"
    /\ entrada.s = <<"1", ",", "1", "9", "9", ".", "9", "9">>
    /\ numero_str = <<"1", "1", "9", "9", ".", "9", "9">>
    /\ resultado = Flotante(Rat(119999, 100))

\* C6: with ',' and no '.', the comma is the decimal separator exactly when
\* there is one comma and at most two characters follow it; otherwise every
\* comma is stripped.
C6_ComaSola ==
    (LlamadaNumero /\ Contiene(entrada.s, ",") /\ ~Contiene(entrada.s, ".")) =>
        LET s == entrada.s
            decimal == Cardinality(Lugares(s, ",")) = 1 /\ Len(s) - UltimoLugar(s, ",") <= 2
        IN  /\ numero_str = IF decimal THEN Cambiar(s, ",", ".") ELSE Quitar(s, ",")
            /\ (decimal /\ \E i \in 1..Len(s) : EsDigito(s[i]))
                  => resultado = ValorDecimal(s, UltimoLugar(s, ","))
            /\ (~decimal /\ \E i \in 1..Len(s) : EsDigito(s[i]))
                  => resultado = ValorDecimal(Quitar(s, ","), 0)

C6_Testigo ==
    /\ op = "_parsear_numero"
    /\ entrada.s = <<"1", ",", "9", "9", "9">>
    /\ numero_str = <<"1", "9", "9", "9">>
    /\ resultado = Flotante(Rat(1999, 1))

\* C7: a numeric text with a single '.' and no ',' is a plain decimal whatever
\* the number of digits after the period ('1.234' with no marker is 1.234, not
\* 1234); a text with no separator is its integer value.
C7_PuntoSolo ==
    ((op \in {"_parsear_numero", "normalizar_precio"}) /\ entrada.tipo = "str"
        /\ EsCorrida(entrada.s) /\ ~Contiene(entrada.s, ",")
        /\ Cardinality(Lugares(entrada.s, ".")) <= 1
        /\ \E i \in 1..Len(entrada.s) : EsDigito(entrada.s[i])) =>
        /\ numero_str = entrada.s
        /\ resultado = ValorDecimal(entrada.s, UltimoLugar(entrada.s, "."))
        /\ entrada.s = <<"1", ".", "2", "3", "4">>
              => resultado = [tipo |-> "float", num |-> 617, den |-> 500]
        /\ entrada.s = <<"1", "0", "0">>
              => resultado = [tipo |-> "float", num |-> 100, den |-> 1]

C7_Testigo ==
    /\ op = "normalizar_precio"
    /\ entrada.s = <<"1", ".", "2", "3", "4">>
    /\ resultado = [tipo |-> "float", num |-> 617, den |-> 500]

\* the markers written after a rendered magnitude, with their currency
MarcadoresFinales ==
    (<<"€">> :> "EUR") @@ (<<"$">> :> "USD") @@ (<<" ", "U", "S", "D">> :> "USD")

\* the text c renders a magnitude with a thousands group and a two-digit
\* fraction, sep1 grouping the thousands and sep2 before the fraction
EsRendicion(c, sep1, sep2) ==
    /\ Len(c) >= 8
    /\ c[Len(c) - 6] = sep1 /\ c[Len(c) - 2] = sep2
    /\ \A i \in 1..Len(c) : i \notin {Len(c) - 6, Len(c) - 2} => EsDigito(c[i])

\* the same magnitude with the two separators exchanged
OtraConvencion(c) ==
    [i \in 1..Len(c) |-> IF c[i] = "," THEN "." ELSE IF c[i] = "." THEN "," ELSE c[i]]

\* C8: a magnitude with a thousands group and a two-digit fraction gives the
\* same value in the European and in the American rendering, the trailing
\* currency marker being the same: its value divided by the marker's rate.
C8_ConvencionIndiferente ==
    (LlamadaPrecio /\ Len(entrada.s) >= 9) =>
        \A f \in DOMAIN MarcadoresFinales :
            LET s == entrada.s
                c == SubSeq(s, 1, Len(s) - Len(f))
            IN  (Len(s) >= 8 + Len(f) /\ SubSeq(s, Len(s) - Len(f) + 1, Len(s)) = f
                    /\ (EsRendicion(c, ".", ",") \/ EsRendicion(c, ",", "."))) =>
                  /\ resultado = normalizar_precio(Str(OtraConvencion(c) \o f),
                                                    monedas, tasas_cambio)
                  /\ EsCociente(resultado, Rat(Entero(SelectSeq(c, EsDigito)), 100),
                                TasasIniciales[MarcadoresFinales[f]])

C8_Testigo ==
    /\ op = "normalizar_precio"
    /\ entrada.s = <<"1", ".", "1", "9", "9", ",", "9", "9", "€">>
    /\ resultado = normalizar_precio(
                       Str(<<"1", ",", "1", "9", "9", ".", "9", "9", "€">>),
                       monedas, tasas_cambio)
    /\ EsCociente(resultado, Rat(119999, 100), Rat(85, 100))

\* C9: a price marked as US dollars (leading '$', trailing '$' or 'USD')
\* returns exactly its parsed magnitude; '$1,299.99' returns 1299.99.
C9_DolarSinConversion ==
    LlamadaPrecio =>
        LET s == entrada.s
        IN  /\ (Len(s) >= 2 /\ s[1] = "$" /\ EsCorrida(Tail(s))
                      /\ _parsear_numero(Tail(s)).tipo = "float")
                    => resultado = _parsear_numero(Tail(s))
            /\ \A f \in {<<"$">>, <<"U", "S", "D">>, <<" ", "U", "S", "D">>} :
                  (Len(s) > Len(f) /\ SubSeq(s, Len(s) - Len(f) + 1, Len(s)) = f
                      /\ EsCorrida(SubSeq(s, 1, Len(s) - Len(f)))
                      /\ _parsear_numero(SubSeq(s, 1, Len(s) - Len(f))).tipo = "float")
                    => resultado = _parsear_numero(SubSeq(s, 1, Len(s) - Len(f)))
            /\ s = <<"$", "1", ",", "2", "9", "9", ".", "9", "9">>
                  => resultado = [tipo |-> "float", num |-> 129999, den |-> 100]

C9_Testigo ==
    /\ op = "normalizar_precio"
    /\ entrada.s = <<"$", "1", ",", "2", "9", "9", ".", "9", "9">>
    /\ resultado = [tipo |-> "float", num |-> 129999, den |-> 100]

\* C10: when the pattern finds a marker and the magnitude parses, the result
\* is the magnitude divided by the rate of the resolved currency if the rate
\* table has it, and the magnitude unchanged (never a failure) if it has not.
C10_TasaODirecto ==
    LlamadaPrecio =>
        LET match == re_search(strip(entrada.s))
            magnitud == _parsear_numero(match.grupo1)
            moneda == get(monedas, upper(match.grupo2), "USD")
        IN  (match.hay /\ magnitud.tipo = "float") =>
                IF moneda \in DOMAIN tasas_cambio
                THEN EsCociente(resultado, magnitud, tasas_cambio[moneda])
                ELSE resultado = magnitud

C10_Testigo ==
    /\ op = "normalizar_precio"
    /\ "EUR" \notin DOMAIN tasas_cambio
    /\ entrada.s = <<"1", "9", "€">>
    /\ resultado = [tipo |-> "float", num |-> 19, den |-> 1]

(***************************************************************************)
(* str() of a float whose decimal expansion is finite: the shortest digits *)
(* that give the value back, positional when the decimal point lies within *)
(* the digits or at most three zeros follow it, with an exponent otherwise. *)
(***************************************************************************)
EsDecimal(v) == v.tipo = "float" /\ \E k \in 0..9 : Pot10(k) % v.den = 0

RECURSIVE CifrasEnteras(_)
CifrasEnteras(n) ==
    IF n < 10 THEN <<Digitos[n + 1]>>
    ELSE CifrasEnteras(n \div 10) \o <<Digitos[(n % 10) + 1]>>

RECURSIVE CifrasFraccion(_, _)
CifrasFraccion(r, d) ==
    IF r = 0 THEN <<>>
    ELSE <<Digitos[((r * 10) \div d) + 1]>> \o CifrasFraccion((r * 10) % d, d)

RECURSIVE CerosIniciales(_)
CerosIniciales(s) ==
    IF s = <<>> \/ Head(s) # "0" THEN 0 ELSE 1 + CerosIniciales(Tail(s))

RECURSIVE SinCerosFinales(_)
SinCerosFinales(s) ==
    IF s = <<>> \/ s[Len(s)] # "0" THEN s
    ELSE SinCerosFinales(SubSeq(s, 1, Len(s) - 1))

Mantisa(sig) == IF Len(sig) = 1 THEN sig ELSE <<Head(sig), ".">> \o Tail(sig)

DosCifras(n) == IF n < 10 THEN <<"0">> \o CifrasEnteras(n) ELSE CifrasEnteras(n)

str_float(v) ==
    Unico({
        IF ent > 0
        THEN IF Len(cifras) > 16
             THEN Mantisa(SinCerosFinales(cifras \o frac))
                      \o <<"e", "+">> \o DosCifras(Len(cifras) - 1)
             ELSE cifras \o <<".">> \o (IF frac = <<>> THEN <<"0">> ELSE frac)
        ELSE IF frac = <<>> THEN <<"0", ".", "0">>
        ELSE IF CerosIniciales(frac) <= 3 THEN <<"0", ".">> \o frac
        ELSE Mantisa(SubSeq(frac, CerosIniciales(frac) + 1, Len(frac)))
                 \o <<"e", "-">> \o DosCifras(CerosIniciales(frac) + 1)
          : ent \in {v.num \div v.den}, cifras \in {CifrasEnteras(v.num \div v.den)},
            frac \in {CifrasFraccion(v.num % v.den, v.den)}})

\* C11: re-parse idempotence: when normalizar_precio returns a value v for a
\* string, normalizar_precio on str(v), which carries no currency marker,
\* returns v again.
C11_ReparseoIdempotente ==
    (LlamadaPrecio /\ EsDecimal(resultado)) =>
        normalizar_precio(Str(str_float(resultado)), monedas, tasas_cambio) = resultado

\* C12: normalizar_precio is pure: no call changes self.monedas or
\* self.tasas_cambio, the result of a call is the function of its string and
\* the two tables, and in a batch every row's result is what a lone call on
\* that row gives, whatever rows were parsed before it.
C12_Puro ==
    [][/\ monedas' = monedas
       /\ tasas_cambio' = tasas_cambio
       /\ op' = "normalizar_precio"
            => resultado' = normalizar_precio(entrada', monedas, tasas_cambio)
       /\ op' = "apply"
            => /\ Len(precio_normalizado') = Len(columna')
               /\ \A i \in 1..Len(columna') :
                    precio_normalizado'[i]
                        = normalizar_precio(columna'[i], monedas, tasas_cambio)]_vars

C12_Testigo ==
    /\ op = "apply"
    /\ columna = <<Str(<<"$", "9">>), Str(<<"1", "€">>)>>
    /\ precio_normalizado = <<Flotante(Rat(9, 1)), Flotante(Rat(20, 17))>>
    /\ monedas = MonedasIniciales
    /\ tasas_cambio = TasasIniciales

\* w occurs in s, letter case aside
Aparece(s, w) ==
    \E i \in 1..(Len(s) - Len(w) + 1) : upper(SubSeq(s, i, i + Len(w) - 1)) = upper(w)

SimbolosDe(s) == {s[i] : i \in {j \in 1..Len(s) : s[j] \in Simbolos}}

\* C13: the currency marker is chosen by kind, symbol before ISO code before
\* word: a string that holds one currency symbol and also a code or a word
\* (a number followed by 'USD' and then by the euro sign) is converted with
\* the symbol's currency, wherever the symbol stands.
C13_PrioridadSimbolo ==
    LlamadaPrecio =>
        LET s == strip(entrada.s)
            match == re_search(s)
            magnitud == _parsear_numero(match.grupo1)
        IN  (/\ Cardinality(SimbolosDe(s)) = 1
             /\ \E w \in Codigos \cup Palabras : Aparece(s, w)
             /\ match.hay /\ magnitud.tipo = "float")
            => \A c \in SimbolosDe(s) :
                  EsCociente(resultado, magnitud, tasas_cambio[monedas[<<c>>]])

(***************************************************************************)
(* Properties of parsear_fecha_flexible.                                   *)
(***************************************************************************)
MediaNoche == <<"0", "0", ":", "0", "0", ":", "0", "0">>

\* the date and time the fields c and the text h ('HH:MM:SS') name, ErrorFecha
\* when the calendar has no such day or the clock no such time
Marca(c, h) ==
    datetime(Entero(c.y), Entero(c.m), Entero(c.d), Entero(SubSeq(h, 1, 2)),
             Entero(SubSeq(h, 4, 5)), Entero(SubSeq(h, 7, 8)), 0)

\* C14: the formats are tried in the order of the list, one after the other
\* from the first; the call returns what the first accepted format gives and
\* no format is tried after it.  So a slash-separated date whose day and
\* month are both at most 12 is read day first, '03/04/2023' as 3 April.
C14_OrdenFijo ==
    [][/\ (op_temporal = "libre" /\ op_temporal' = "bucle") => formato' = 1
       /\ (op_temporal = "bucle" /\ op_temporal' = "bucle")
            => /\ formato' = formato + 1
               /\ strptime(fecha_str.s, formatos[formato]).tipo # "datetime"
       /\ (op_temporal = "bucle" /\ op_temporal' = "retorno"
                /\ fecha_parseada'.tipo = "datetime")
            => /\ formato' = formato
               /\ fecha_parseada' = strptime(fecha_str.s, formatos[formato])
       /\ op_temporal = "retorno" => (op_temporal' = "libre" /\ formato' = 0)
       /\ op_temporal' = "retorno"
            => \A c \in {k \in Calendario : Entero(k.d) <= 12 /\ Entero(k.m) <= 12} :
                  /\ fecha_str'.s = Barras(c) => fecha_parseada' = Marca(c, MediaNoche)
                  /\ \A h \in {k \in HorasEntrada : Marca(c, k).tipo = "datetime"} :
                        fecha_str'.s = Barras(c) \o <<" ">> \o h
                            => fecha_parseada' = Marca(c, h)]_vars

C14_Testigo ==
    /\ op_temporal = "retorno"
    /\ fecha_str.s = <<"0", "3", "/", "0", "4", "/", "2", "0", "2", "3">>
    /\ formato = 4
    /\ fecha_parseada = datetime(2023, 4, 3, 0, 0, 0, 0)

\* the four ISO-8601 shapes: without and with fractional seconds, without
\* and with the zone marker
FormasISO == {<<>>, <<"Z">>, <<".", "5">>, <<".", "5", "Z">>}

\* C15: an ISO-8601 text 'YYYY-MM-DDTHH:MM:SS' of a date and time that exist
\* returns a timestamp, not None, in each of its four shapes: with or
\* without fractional seconds, with or without the trailing 'Z'.
C15_CuatroFormasISO ==
    op_temporal = "retorno" =>
        \A c \in Calendario, h \in HorasEntrada, z \in FormasISO :
            (Marca(c, h).tipo = "datetime"
                /\ fecha_str.s = ISOFecha(c) \o <<"T">> \o h \o z)
            => fecha_parseada.tipo = "datetime"

\* C16: the three renderings of one date and time that exist, 'YYYY-MM-DD
\* HH:MM:SS', 'DD/MM/YYYY HH:MM:SS' and 'DD-MM-YYYY HH:MM:SS', return the
\* same timestamp, the one of that date and time: '2023-01-15 10:30:00' and
\* '15/01/2023 10:30:00' both give 15 January 2023, 10:30:00.
C16_TresEscrituras ==
    op_temporal = "retorno" =>
        \A c \in Calendario, h \in HorasEntrada :
            (Marca(c, h).tipo = "datetime"
                /\ fecha_str.s \in {f \o <<" ">> \o h : f \in {ISOFecha(c), Barras(c), Guiones(c)}})
            => fecha_parseada = Marca(c, h)

C16_Testigo ==
    /\ op_temporal = "retorno"
    /\ fecha_str.s = <<"1", "5", "-", "0", "1", "-", "2", "0", "2", "3", " ",
                       "1", "0", ":", "3", "0", ":", "0", "0">>
    /\ formato = 5
    /\ fecha_parseada = datetime(2023, 1, 15, 10, 30, 0, 0)

OrdenFijo == <<"eliminar_duplicados", "manejar_valores_nulos", "estandarizar_texto",
               "detectar_outliers", "validar_formatos">>

\* the steps the config turns on, in the fixed order
Habilitados(cfg) ==
    SelectSeq(OrdenFijo, LAMBDA p : Bandera[p] \in DOMAIN cfg /\ cfg[Bandera[p]])

Operaciones(tr) == [i \in 1..Len(tr) |-> tr[i].operacion]

EsPrefijo(a, b) == Len(a) <= Len(b) /\ a = SubSeq(b, 1, Len(a))

\* the five steps applied one to the result of the other
Encadenado(cfg, t) ==
    validar_formatos(cfg,
      detectar_outliers(cfg,
        estandarizar_texto(cfg,
          manejar_valores_nulos(cfg,
            eliminar_duplicados(cfg, t).df).df).df).df).df

\* C18: during a run of fit_transform the entries of self.transformaciones
\* are, in order, those of the enabled steps reached so far: one entry for an
\* enabled step, none for a disabled one, in the order eliminar_duplicados,
\* manejar_valores_nulos, estandarizar_texto, detectar_outliers,
\* validar_formatos; when fit_transform returns there is exactly one entry per
\* enabled step and the table returned is the one the five steps give when
\* each receives the table the previous one returned.
C18_OrdenDePasos ==
    /\ op_pipeline \in {"fit_transform", "retornado", "KeyError"} =>
           EsPrefijo(Operaciones(transformaciones), Habilitados(config))
    /\ op_pipeline = "retornado" =>
           /\ Operaciones(transformaciones) = Habilitados(config)
           /\ df_limpio = Encadenado(config, df)

\* a run has returned with a step disabled between two enabled ones, and the
\* order of the steps shows in the table: the text of its two rows is the same
\* only after estandarizar_texto, so both rows are still there
C18_Testigo ==
    /\ op_pipeline = "retornado"
    /\ Operaciones(transformaciones) =
           <<"eliminar_duplicados", "estandarizar_texto", "validar_formatos">>
    /\ NumFilas(df) = 2
    /\ NumFilas(df_limpio) = 2
    /\ df_limpio.filas[1] = df_limpio.filas[2]

\* C20: a DataCleaner built with a config that sets only some of the keys runs
\* fit_transform to completion: no step ends it with a KeyError for a key the
\* config lacks, and generar_reporte after the run succeeds.
C20_ConfigParcial ==
    DOMAIN config # DOMAIN ConfiguracionDefault =>
        /\ op_pipeline # "KeyError"
        /\ (op_pipeline = "reporte" /\ "inicial" \in DOMAIN estadisticas) =>
               reporte.estado = "ok"

(***************************************************************************)
(* Properties of ValidadorCalidad.                                         *)
(***************************************************************************)
\* the entry validar must hold for a rule on the table t
EntradaDe(regla, t) ==
    [regla |-> regla.nombre,
     descripcion |-> regla.descripcion,
     paso |-> IF Funcion(regla.funcion, t).lanza THEN FALSE ELSE Funcion(regla.funcion, t).paso,
     error |-> IF Funcion(regla.funcion, t).lanza
               THEN Str(Funcion(regla.funcion, t).texto)
               ELSE SinError]

\* C19: validar runs every registered rule once, in the order the rules were
\* added: while it runs, the entries of 'resultados' are those of the first
\* rules, one each, and no exception of a rule leaves the call; a rule that
\* raises has paso = False and the text of the exception in 'error', a rule
\* that does not raise has its value in paso and error = None; at the return
\* 'resultados' has as many entries as 'reglas_ejecutadas', the number of
\* registered rules.
C19_CadaReglaUnaVez ==
    /\ op_validador \in {"libre", "validar", "retorno"}
    /\ op_validador \in {"validar", "retorno"} =>
          /\ resultados.reglas_ejecutadas = Len(reglas)
          /\ Len(resultados.resultados) <= Len(reglas)
          /\ \A i \in 1..Len(resultados.resultados) :
                resultados.resultados[i] = EntradaDe(reglas[i], df_validado)
    /\ op_validador = "retorno" =>
          Len(resultados.resultados) = resultados.reglas_ejecutadas

\* validar has returned from three rules of which the first raised (the
\* table has no email column) and the ones after it ran, one passing and one
\* not
C19_Testigo ==
    /\ op_validador = "retorno"
    /\ Len(reglas) = 3
    /\ reglas[1].nombre = "emails_validos"
    /\ resultados.resultados[1].paso = FALSE
    /\ resultados.resultados[1].error = Str(<<"'", "e", "m", "a", "i", "l", "'">>)
    /\ resultados.resultados[2].error = SinError
    /\ resultados.resultados[2].paso = TRUE
    /\ resultados.resultados[3].error = SinError
    /\ resultados.resultados[3].paso = FALSE

\* a text of digits with one comma that exactly three digits follow
ComaYTresCifras(s) ==
    /\ Cardinality(Lugares(s, ",")) = 1
    /\ Len(s) - UltimoLugar(s, ",") = 3
    /\ UltimoLugar(s, ",") > 1
    /\ \A i \in 1..Len(s) : s[i] = "," \/ EsDigito(s[i])

\* C21 (as stated): one comma followed by a three-digit group is read with the
\* comma as decimal separator: _parsear_numero('12,345') returns 12.345.
C21_ComaTresCifrasDecimal ==
    (op = "_parsear_numero" /\ entrada.s = <<"1", "2", ",", "3", "4", "5">>) =>
        resultado = Flotante(Rat(12345, 1000))

\* C21 (amended): one comma followed by a three-digit group is read with the
\* comma as thousands separator, the comma is stripped:
\* _parsear_numero('12,345') returns 12345.0; the comma is the decimal
\* separator only when at most two characters follow it.
C21_ComaTresCifrasMiles ==
    (op = "_parsear_numero" /\ ComaYTresCifras(entrada.s)) =>
        /\ numero_str = Quitar(entrada.s, ",")
        /\ resultado = ValorDecimal(Quitar(entrada.s, ","), 0)
        /\ entrada.s = <<"1", "2", ",", "3", "4", "5">>
              => resultado = Flotante(Rat(12345, 1))

C21_Testigo ==
    /\ op = "_parsear_numero"
    /\ entrada.s = <<"1", "2", ",", "3", "4", "5">>
    /\ numero_str = <<"1", "2", "3", "4", "5">>
    /\ resultado = Flotante(Rat(12345, 1))

\* C22: when fit_transform returns and eliminar_duplicados is enabled, the
\* returned table has no two identical rows and estadisticas['final']
\* counts no duplicate, whatever the input table.
C22_SinDuplicadosAlFinal ==
    (op_pipeline = "retornado" /\ config["eliminar_duplicados"]) =>
        /\ Duplicadas(df_limpio) = {}
        /\ estadisticas["final"].duplicados = 0

\* C23: the table manejar_valores_nulos returns, manejar_nulos enabled, holds
\* no null cell, for every input table and every metodo_imputacion.
C23_SinNulosTrasImputar ==
    (op_pipeline = "fit_transform" /\ paso = 3 /\ config["manejar_nulos"]) =>
        NulosTotales(df_limpio) = 0

(***************************************************************************)
(* Properties of LimpiadorTexto.                                           *)
(***************************************************************************)
CifrasDe(s) == SelectSeq(s, EsDigito)

\* nine digits of which the first is 6, 7, 8 or 9
EsNumeroEspanol(n) == Len(n) = 9 /\ n[1] \in {"6", "7", "8", "9"}

\* the digits of a Spanish number after one of the prefixes, or after none
ConPrefijoEspanol(d) ==
    \E p \in {<<>>, <<"3", "4">>, <<"0", "0", "3", "4">>} :
        EmpiezaCon(d, p) /\ EsNumeroEspanol(Desde(d, Len(p) + 1))

Ultimas(d, k) == SubSeq(d, Len(d) - k + 1, Len(d))

\* C24: a text whose digits are a Spanish number of 9 digits starting with
\* 6, 7, 8 or 9, after the prefix +34, 34 or 0034 or after none, whatever
\* stands between the digits, is normalized to '+34-XXX-XXX-XXX' with those 9
\* digits; every other input returns None.
C24_TelefonoNormalizado ==
    op_texto = "limpiar_telefono" =>
        IF texto.tipo = "str" /\ ConPrefijoEspanol(CifrasDe(texto.s))
        THEN salida = Str(<<"+", "3", "4", "-">>
                          \o SubSeq(Ultimas(CifrasDe(texto.s), 9), 1, 3) \o <<"-">>
                          \o SubSeq(Ultimas(CifrasDe(texto.s), 9), 4, 6) \o <<"-">>
                          \o SubSeq(Ultimas(CifrasDe(texto.s), 9), 7, 9))
        ELSE salida = SinTexto

\* a '<', at least one character that is not '>', and a '>'
HayEtiqueta(s) ==
    \E i \in 1..Len(s) : \E j \in (i + 2)..Len(s) :
        /\ s[i] = "<"
        /\ s[j] = ">"
        /\ \A k \in (i + 1)..(j - 1) : s[k] # ">"

\* C25: what limpiar_html returns holds no HTML tag, no '<' ... '>', for every
\* input text, also when the tags of the input are written with entities.
C25_SinEtiquetas ==
    op_texto = "limpiar_html" => ~HayEtiqueta(salida.s)

C26_SiempreUTC ==
    op_zona = "normalizar_zona_horaria" =>
        /\ fecha.tipo # "datetime" => fecha_utc.tipo = "None"
        /\ fecha.tipo = "datetime" =>
             /\ fecha_utc.tipo = "datetime"
             /\ fecha_utc.tzinfo = "UTC"
             /\ (fecha.tzinfo # "" \/ ZonaConocida(zona_original)) =>
                    fecha_utc.hora =
                        fecha.hora - utcoffset[IF fecha.tzinfo # "" THEN fecha.tzinfo
                                               ELSE zona_original][fecha.fecha]

\* C29: a slash-separated date 'a/b/YYYY' is read day first, day a of month
\* b, when b is at most 12, and month first, month a and day b, when b is
\* more than 12 and a at most 12 (the calendar having that day): two texts of
\* one batch are read under different conventions, '01/12/2023' as 1 December
\* and '01/13/2023' as 13 January.
C29_MesPrimeroSoloSiHaceFalta ==
    op_temporal = "retorno" =>
        /\ \A c \in Calendario :
              fecha_str.s = Barras(c) =>
                 /\ (Entero(c.m) <= 12
                        /\ datetime(Entero(c.y), Entero(c.m), Entero(c.d), 0, 0, 0, 0).tipo
                             = "datetime")
                      => fecha_parseada =
                             datetime(Entero(c.y), Entero(c.m), Entero(c.d), 0, 0, 0, 0)
                 /\ (Entero(c.m) > 12 /\ Entero(c.d) <= 12
                        /\ datetime(Entero(c.y), Entero(c.d), Entero(c.m), 0, 0, 0, 0).tipo
                             = "datetime")
                      => fecha_parseada =
                             datetime(Entero(c.y), Entero(c.d), Entero(c.m), 0, 0, 0, 0)
        /\ fecha_str.s = <<"0", "1", "/", "1", "2", "/", "2", "0", "2", "3">>
              => fecha_parseada = datetime(2023, 12, 1, 0, 0, 0, 0)
        /\ fecha_str.s = <<"0", "1", "/", "1", "3", "/", "2", "0", "2", "3">>
              => fecha_parseada = datetime(2023, 1, 13, 0, 0, 0, 0)

C29_Testigo ==
    /\ op_temporal = "retorno"
    /\ fecha_str.s = <<"0", "1", "/", "1", "3", "/", "2", "0", "2", "3">>
    /\ formato = 8
    /\ fecha_parseada = datetime(2023, 1, 13, 0, 0, 0, 0)

RECURSIVE Repetido(_, _)
Repetido(s, k) == IF k = 0 THEN <<>> ELSE s \o Repetido(s, k - 1)

\* what holds of the instance after its calls of fit_transform
EstadoTrasCorridas ==
    /\ EsPrefijo(Operaciones(transformaciones), Repetido(Habilitados(config), corridas))
    /\ op_pipeline = "retornado" =>
          /\ Operaciones(transformaciones) = Repetido(Habilitados(config), corridas)
          /\ estadisticas = [inicial |-> Estadisticas(df), final |-> Estadisticas(df_limpio)]
    /\ (op_pipeline = "reporte" /\ corridas > 0) =>
          /\ reporte.estado = "ok"
          /\ reporte.resumen.transformaciones_aplicadas
                = corridas * Len(Habilitados(config))
          /\ reporte.estadisticas =
                [inicial |-> Estadisticas(df), final |-> Estadisticas(df_limpio)]
          /\ reporte.resumen.filas_eliminadas = NumFilas(df) - NumFilas(df_limpio)
          /\ reporte.resumen.filas_eliminadas >= 0
    /\ (op_pipeline = "reporte" /\ corridas = 0) => reporte.estado = "KeyError"

\* C28: self.transformaciones only grows, no call empties it: after k calls
\* of fit_transform on one instance it holds the entries of the k runs, k
\* times those of the enabled steps, and 'transformaciones_aplicadas' of
\* generar_reporte counts them all, while 'estadisticas' and
\* 'filas_eliminadas' (never negative) are those of the last run only;
\* generar_reporte before any fit_transform fails.
C28_EstadoEntreCorridas ==
    /\ []EstadoTrasCorridas
    /\ [][EsPrefijo(transformaciones, transformaciones')]_vars

\* the report after two runs under the default config: eight entries, the
\* first run removed no row, the second one did, and the report tells of the
\* second only
C28_Testigo ==
    /\ op_pipeline = "reporte"
    /\ corridas = 2
    /\ reporte.resumen.transformaciones_aplicadas = 8
    /\ transformaciones[1].detalles.filas_eliminadas = 0
    /\ transformaciones[5].detalles.filas_eliminadas = 1
    /\ reporte.resumen.filas_eliminadas = 1
    /\ reporte.estadisticas["inicial"].filas = 2

\* C30: a step whose config flag is false returns the table it was given and
\* appends nothing to self.transformaciones; and no step of a run of
\* fit_transform, whatever the flags, changes the table the caller gave or
\* self.config: the steps work on the copy df_limpio.
C30_Marco ==
    [][/\ config' = config
       /\ op_pipeline = "fit_transform" => df' = df
       /\ (op_pipeline = "libre" /\ op_pipeline' = "fit_transform") => df_limpio' = df'
       /\ (op_pipeline = "fit_transform" /\ paso <= Len(OrdenFijo) /\ paso' = paso + 1
              /\ ~config[Bandera[OrdenFijo[paso]]])
            => /\ df_limpio' = df_limpio
               /\ transformaciones' = transformaciones]_vars

\* manejar_valores_nulos, disabled, has been passed: the table that left
\* eliminar_duplicados with one row of two still has its null, and the
\* caller's table its two rows
C30_Testigo ==
    /\ op_pipeline = "fit_transform"
    /\ paso = 3
    /\ ~config["manejar_nulos"]
    /\ Operaciones(transformaciones) = <<"eliminar_duplicados">>
    /\ NumFilas(df) = 2
    /\ NumFilas(df_limpio) = 1
    /\ NulosTotales(df_limpio) = NulosTotales(df) \div 2
    /\ NulosTotales(df_limpio) > 0

====
